---- MODULE Spec2Model ----
(***************************************************************************)
(* StackTrie (trie/stacktrie.go): an append-only Merkle Patricia trie      *)
(* builder.  The model keeps the node tree, the boundary buffers and the   *)
(* options of one StackTrie, and records the stream of writer and cleaner  *)
(* callbacks it makes.                                                     *)
(*                                                                         *)
(* Byte strings.  A byte string is a sequence of cells.  A plain byte b is *)
(* the cell <<b>>.  Keccak-256 cannot be computed here; the digest of a    *)
(* blob is modelled as a string of exactly 32 cells whose first cell       *)
(* carries the preimage, so that digests are 32 long and two blobs have    *)
(* the same digest only when they are equal.                               *)
(* Nibble paths and node keys are plain sequences of numbers 0..16.        *)
(***************************************************************************)
EXTENDS Integers, Sequences, FiniteSets, TLC

VARIABLES options, root, first, last, gauge, calls, finals, updates, ret, pool, reused

vars == <<options, root, first, last, gauge, calls, finals, updates, ret, pool, reused>>

(***************************************************************************)
(* Bounds of the model.                                                    *)
(***************************************************************************)
\* Update calls made within one trie lifetime.
MaxUpdates == 3
\* Length of the long user value (its leaf encodes to 32 bytes or more).
LongLen == 32

\* Bytes a key is made of, and the first bytes of two-byte keys.
KeyBytes == {0, 1, 16, 32}
FirstBytes == {0, 1}
\* Keys passed to Update: the empty key, one-byte keys and two-byte keys.
Keys == {<<>>} \cup {<<b>> : b \in KeyBytes} \cup {<<a, b>> : a \in FirstBytes, b \in KeyBytes}

(***************************************************************************)
(* Program constants.                                                      *)
(***************************************************************************)
emptyNode == 0
branchNode == 1
extNode == 2
leafNode == 3
hashedNode == 4
\* common.HashLength; the inline threshold of hash() is the literal 32.
HashLength == 32

(***************************************************************************)
(* Byte-string helpers.                                                    *)
(***************************************************************************)
Cells(s) == [i \in 1..Len(s) |-> <<s[i]>>]

RECURSIVE Concat(_)
Concat(ss) == IF ss = <<>> THEN <<>> ELSE Head(ss) \o Concat(Tail(ss))

\* bytes.HasPrefix(s, prefix)
HasPrefix(s, prefix) ==
    /\ Len(prefix) <= Len(s)
    /\ SubSeq(s, 1, Len(prefix)) = prefix

\* bytes.Compare(a, b) < 0
RECURSIVE BytesLess(_, _)
BytesLess(a, b) ==
    IF b = <<>> THEN FALSE
    ELSE IF a = <<>> THEN TRUE
    ELSE IF Head(a) # Head(b) THEN Head(a) < Head(b)
    ELSE BytesLess(Tail(a), Tail(b))

\* The user values: a one-byte value and a long one.
Tiny == <<<<1>>>>
Long == [i \in 1..LongLen |-> <<2>>]
Vals == {Tiny, Long}

(***************************************************************************)
(* Keccak-256 and common.BytesToHash.                                      *)
(***************************************************************************)
\* hasher.hashData: 32 cells, the first one carrying the preimage.
hashData(blob) == [i \in 1..HashLength |-> IF i = 1 THEN <<"keccak256", blob>> ELSE <<>>]

\* common.BytesToHash: crop from the left, or pad on the left with zeros.
BytesToHash(b) ==
    IF Len(b) > HashLength THEN SubSeq(b, Len(b) - HashLength + 1, Len(b))
    ELSE [i \in 1..(HashLength - Len(b)) |-> <<0>>] \o b

\* common.CopyBytes
CopyBytes(b) == [i \in 1..Len(b) |-> b[i]]

(***************************************************************************)
(* RLP (rlp.EncoderBuffer).                                                *)
(***************************************************************************)
\* Big-endian bytes of a positive number, without leading zeros.
RECURSIVE BigEndian(_)
BigEndian(n) == IF n = 0 THEN <<>> ELSE BigEndian(n \div 256) \o <<n % 256>>

\* The header of a payload of n bytes: a string (base 128) or a list (base 192).
rlpHeader(n, base) ==
    IF n < 56 THEN <<<<base + n>>>>
    ELSE Cells(<<base + 55 + Len(BigEndian(n))>> \o BigEndian(n))

\* EncoderBuffer.WriteBytes: a byte string as an RLP string.
WriteBytes(b) ==
    IF Len(b) = 1 /\ Len(b[1]) = 1 /\ b[1][1] < 128 THEN b
    ELSE rlpHeader(Len(b), 128) \o b

\* rlp.EmptyString
EmptyString == <<<<128>>>>

\* EncoderBuffer.List ... ListEnd around a payload.
rlpList(payload) == rlpHeader(Len(payload), 192) \o payload

\* types.EmptyRootHash: Keccak256(rlp("")).
emptyRoot == hashData(EmptyString)

(***************************************************************************)
(* Nibble codec (trie/encoding.go).                                        *)
(***************************************************************************)
\* keybytesToHex: two nibbles per byte, high first, then the terminator 16.
RECURSIVE keybytesToHex(_)
keybytesToHex(str) ==
    IF str = <<>> THEN <<16>>
    ELSE <<Head(str) \div 16, Head(str) % 16>> \o keybytesToHex(Tail(str))

RECURSIVE packNibbles(_)
packNibbles(hex) ==
    IF Len(hex) < 2 THEN <<>>
    ELSE <<16 * hex[1] + hex[2]>> \o packNibbles(SubSeq(hex, 3, Len(hex)))

\* hexToCompactInPlace: the compact bytes hex[:sz] it leaves in the buffer.
hexToCompactInPlace(hex) ==
    LET term == Len(hex) > 0 /\ hex[Len(hex)] = 16
        body == IF term THEN SubSeq(hex, 1, Len(hex) - 1) ELSE hex
        odd == Len(body) % 2 = 1
        firstByte == (IF term THEN 32 ELSE 0) + (IF odd THEN 16 + body[1] ELSE 0)
        rest == IF odd THEN Tail(body) ELSE body
    IN  Cells(<<firstByte>> \o packNibbles(rest))

(***************************************************************************)
(* Node encoding (trie/node_enc.go).                                       *)
(***************************************************************************)
\* A child reference of the encoder view: nil, rawNode, hashNode, valueNode.
nilRef == [k |-> "nil", b |-> <<>>]
nilValueNode == [k |-> "value", b |-> <<>>]
rawNode(b) == [k |-> "raw", b |-> b]
hashNode(b) == [k |-> "hash", b |-> b]
valueNode(b) == [k |-> "value", b |-> b]

\* node.encode for the child kinds: rawNode is written as is, nil as the
\* empty string.
encodeRef(n) ==
    IF n.k = "raw" THEN n.b
    ELSE IF n.k = "nil" THEN EmptyString
    ELSE WriteBytes(n.b)

\* shortNode.encode
encodeShort(key, val) == rlpList(WriteBytes(key) \o encodeRef(val))

\* fullNode.encode: the seventeen slots of Children.
encodeFull(children) == rlpList(Concat([i \in 1..17 |-> encodeRef(children[i])]))

(***************************************************************************)
(* stNode and the node pool.                                               *)
(***************************************************************************)
\* A nil *stNode.
NilNode == [typ |-> -1]

NoChildren == [i \in 1..16 |-> NilNode]

\* stPool.Get(): a cleared node (a new one, or one that reset() cleared).
poolGet == [typ |-> emptyNode, key |-> <<>>, val |-> <<>>, children |-> NoChildren]

\* stNode.reset
reset(n) == [n EXCEPT !.key = <<>>, !.val = <<>>, !.children = NoChildren, !.typ = emptyNode]

\* stPool.Put(n): the log of releases gets the node as it was put, and the
\* path it had in the trie.
poolPut(t, path, n) == [t EXCEPT !.pool = Append(@, [path |-> path, node |-> n, at |-> t.at])]

\* newLeaf
newLeaf(key, val) == [poolGet EXCEPT !.typ = leafNode, !.key = key, !.val = val]

\* newExt
newExt(key, child) ==
    [poolGet EXCEPT !.typ = extNode, !.key = key, !.children[1] = child]

\* stNode.getDiffIndex; -1 stands for the index-out-of-range panic of key[idx].
RECURSIVE diffFrom(_, _, _)
diffFrom(nkey, key, idx) ==
    IF idx > Len(nkey) THEN Len(nkey)
    ELSE IF idx > Len(key) THEN -1
    ELSE IF nkey[idx] # key[idx] THEN idx - 1
    ELSE diffFrom(nkey, key, idx + 1)

\* Faulty variant: a key that ends inside the node's key counts as equal to it.
getDiffIndex_ShortKeyMatches(n, key) ==
    IF diffFrom(n.key, key, 1) < 0 THEN Len(n.key) ELSE diffFrom(n.key, key, 1)

getDiffIndex(n, key) == diffFrom(n.key, key, 1)

(***************************************************************************)
(* hash(): finalization of a node, and the emission rule.                  *)
(* t is the trie's environment: options, first, last, and the callback     *)
(* stream, gauge and finalization log it has produced; at names the public *)
(* operation that is running.                                              *)
(***************************************************************************)
\* One callback of the stream.
WriterCall(t, path, hash, blob) ==
    [op |-> "writer", path |-> path, hash |-> hash, blob |-> blob, at |-> t.at]

CleanerCall(t, path) ==
    [op |-> "cleaner", path |-> path, hash |-> <<>>, blob |-> <<>>, at |-> t.at]

\* The reference a parent's encoding holds for a hashed child.
childRef(val) == IF Len(val) < 32 THEN rawNode(val) ELSE hashNode(val)

\* Faulty variant: the range of internal paths starts at the extension's own path.
internalPaths_WithOwnPath(t, st, path) ==
    IF Len(st.children[1].val) >= 32 /\ t.options.Cleaner
    THEN [i \in 1..Len(st.key) |-> path \o SubSeq(st.key, 1, i - 1)]
    ELSE <<>>

\* Faulty variant: the internal paths are reported whatever the child's size.
internalPaths_AnyChild(t, st, path) ==
    IF t.options.Cleaner
    THEN [i \in 1..(Len(st.key) - 1) |-> path \o SubSeq(st.key, 1, i)]
    ELSE <<>>

\* Faulty variant: the range of internal paths runs up to the child's own path.
internalPaths_ToChild(t, st, path) ==
    IF Len(st.children[1].val) >= 32 /\ t.options.Cleaner
    THEN [i \in 1..Len(st.key) |-> path \o SubSeq(st.key, 1, i)]
    ELSE <<>>

\* The internal paths covered by an extension whose child is stored by digest.
internalPaths(t, st, path) ==
    IF Len(st.children[1].val) >= 32 /\ t.options.Cleaner
    THEN [i \in 1..(Len(st.key) - 1) |-> path \o SubSeq(st.key, 1, i)]
    ELSE <<>>

\* Faulty variant: the root is kept inline too when its encoding is short.
isInline_AlsoRoot(blob, path) == Len(blob) < 32

\* A finalized node is kept inline, not hashed and not committed.
isInline(blob, path) == Len(blob) < 32 /\ Len(path) > 0

\* Faulty variant: the prefix test of the right boundary with its arguments swapped.
skipRight_SwappedArgs(t, path) == t.options.SkipRightBoundary /\ HasPrefix(path, t.last)

\* The node is skipped as a left (right) boundary node.
skipLeft(t, path) == t.options.SkipLeftBoundary /\ HasPrefix(t.first, path)

skipRight(t, path) == t.options.SkipRightBoundary /\ HasPrefix(t.last, path)

\* Faulty variant: a skipped node is counted twice.
gaugeInc_Twice(t) == IF t.options.boundaryGauge THEN [t EXCEPT !.gauge = @ + 2] ELSE t

\* boundaryGauge.Inc(1), when a gauge is configured.
gaugeInc(t) == IF t.options.boundaryGauge THEN [t EXCEPT !.gauge = @ + 1] ELSE t

\* Faulty variant: the node is written before its internal paths are cleaned.
commit_WriterFirst(t, path, hash, blob, internal) ==
    [t EXCEPT !.calls = @ \o <<WriterCall(t, path, hash, blob)>>
                          \o [i \in 1..Len(internal) |-> CleanerCall(t, internal[i])]]

\* The cleaner calls of the internal paths, then the writer call.
commit(t, path, hash, blob, internal) ==
    [t EXCEPT !.calls = @ \o [i \in 1..Len(internal) |-> CleanerCall(t, internal[i])]
                          \o <<WriterCall(t, path, hash, blob)>>]

\* Faulty variant: without a writer the boundary tests and the cleaner calls
\* are still made.
emit_CleansWithoutWriter(t, path, val, blob, internal) ==
    IF skipLeft(t, path) THEN gaugeInc(t)
    ELSE IF skipRight(t, path) THEN gaugeInc(t)
    ELSE IF ~t.options.Writer
    THEN [t EXCEPT !.calls = @ \o [i \in 1..Len(internal) |-> CleanerCall(t, internal[i])]]
    ELSE commit(t, path, BytesToHash(val), blob, internal)

\* The emission rule, after the node got its digest.
emit(t, path, val, blob, internal) ==
    IF ~t.options.Writer THEN t
    ELSE IF skipLeft(t, path) THEN gaugeInc(t)
    ELSE IF skipRight(t, path) THEN gaugeInc(t)
    ELSE commit(t, path, BytesToHash(val), blob, internal)

\* The log of finalizations: what each node became and whether it was handed
\* to the emission rule.
logFinal(t, typ, path, blob, val, sink) ==
    [t EXCEPT !.finals = Append(@, [typ |-> typ, path |-> path, blob |-> blob,
                                    val |-> val, sink |-> sink, at |-> t.at])]

\* Faulty variant: an inline node gets the digest of its encoding as its value.
finalize_AlwaysDigest(t, st, path, blob, internal) ==
    LET st1 == [st EXCEPT !.key = <<>>, !.typ = hashedNode] IN
    IF isInline(blob, path)
    THEN [t |-> logFinal(t, st.typ, path, blob, hashData(blob), FALSE),
          st |-> [st1 EXCEPT !.val = hashData(blob)]]
    ELSE [t |-> emit(logFinal(t, st.typ, path, blob, hashData(blob), TRUE),
                      path, hashData(blob), blob, internal),
          st |-> [st1 EXCEPT !.val = hashData(blob)]]

\* Faulty variant: a node that is skipped for a boundary flag does not get its
\* digest.
finalize_SkippedNoDigest(t, st, path, blob, internal) ==
    LET st1 == [st EXCEPT !.key = <<>>, !.typ = hashedNode] IN
    IF isInline(blob, path)
    THEN [t |-> logFinal(t, st.typ, path, blob, CopyBytes(blob), FALSE),
          st |-> [st1 EXCEPT !.val = CopyBytes(blob)]]
    ELSE [t |-> emit(logFinal(t, st.typ, path, blob, hashData(blob), TRUE),
                      path, hashData(blob), blob, internal),
          st |-> IF t.options.Writer /\ (skipLeft(t, path) \/ skipRight(t, path))
                 THEN st1
                 ELSE [st1 EXCEPT !.val = hashData(blob)]]

\* The end of hash(): the node st, encoded as blob, becomes a hashedNode.
finalize(t, st, path, blob, internal) ==
    LET st1 == [st EXCEPT !.key = <<>>, !.typ = hashedNode] IN
    IF isInline(blob, path)
    THEN [t |-> logFinal(t, st.typ, path, blob, CopyBytes(blob), FALSE),
          st |-> [st1 EXCEPT !.val = CopyBytes(blob)]]
    ELSE [t |-> emit(logFinal(t, st.typ, path, blob, hashData(blob), TRUE),
                      path, hashData(blob), blob, internal),
          st |-> [st1 EXCEPT !.val = hashData(blob)]]

RECURSIVE hash(_, _, _)
RECURSIVE hashChildren(_, _, _, _, _)

\* Faulty variant: a hashed child stays in its slot of the branch.
hashChildren_KeepsChild(t, st, path, i, node) ==
    IF i = 16 THEN [t |-> t, st |-> st, node |-> node]
    ELSE IF st.children[i + 1] = NilNode
    THEN hashChildren(t, st, path, i + 1, Append(node, nilValueNode))
    ELSE LET r == hash(t, st.children[i + 1], Append(path, i)) IN
         hashChildren(poolPut(r.t, Append(path, i), reset(r.st)),
                      [st EXCEPT !.children[i + 1] = r.st], path, i + 1,
                      Append(node, childRef(r.st.val)))

\* Faulty variant: every child is hashed at the path of slot 0.
hashChildren_FirstSlotPath(t, st, path, i, node) ==
    IF i = 16 THEN [t |-> t, st |-> st, node |-> node]
    ELSE IF st.children[i + 1] = NilNode
    THEN hashChildren(t, st, path, i + 1, Append(node, nilValueNode))
    ELSE LET r == hash(t, st.children[i + 1], Append(path, 0)) IN
         hashChildren(poolPut(r.t, Append(path, i), reset(r.st)),
                      [st EXCEPT !.children[i + 1] = NilNode], path, i + 1,
                      Append(node, childRef(r.st.val)))

\* Faulty variant: only the last occupied slot is hashed; the children before
\* it are taken to be hashed already, as they are after Updates in key order.
hashChildren_TrustsOrder(t, st, path, i, node) ==
    IF i = 16 THEN [t |-> t, st |-> st, node |-> node]
    ELSE IF st.children[i + 1] = NilNode
    THEN hashChildren(t, st, path, i + 1, Append(node, nilValueNode))
    ELSE IF \E j \in (i + 1)..15 : st.children[j + 1] # NilNode
    THEN hashChildren(poolPut(t, Append(path, i), reset(st.children[i + 1])),
                      [st EXCEPT !.children[i + 1] = NilNode], path, i + 1,
                      Append(node, childRef(st.children[i + 1].val)))
    ELSE LET r == hash(t, st.children[i + 1], Append(path, i)) IN
         hashChildren(poolPut(r.t, Append(path, i), reset(r.st)),
                      [st EXCEPT !.children[i + 1] = NilNode], path, i + 1,
                      Append(node, childRef(r.st.val)))

\* The loop of the branch case from slot i on; node is the encoder view so far.
hashChildren(t, st, path, i, node) ==
    IF i = 16 THEN [t |-> t, st |-> st, node |-> node]
    ELSE IF st.children[i + 1] = NilNode
    THEN hashChildren(t, st, path, i + 1, Append(node, nilValueNode))
    ELSE LET r == hash(t, st.children[i + 1], Append(path, i)) IN
         hashChildren(poolPut(r.t, Append(path, i), reset(r.st)),
                      [st EXCEPT !.children[i + 1] = NilNode], path, i + 1,
                      Append(node, childRef(r.st.val)))

hashBranch(t, st, path) ==
    LET r == hashChildren(t, st, path, 0, <<>>) IN
    finalize(r.t, r.st, path, encodeFull(Append(r.node, nilRef)), <<>>)

\* Faulty variant: the child of an extension is hashed at the extension's own path.
hashExt_ChildAtOwnPath(t, st, path) ==
    LET r == hash(t, st.children[1], path)
        st1 == [st EXCEPT !.children[1] = r.st]
        internal == internalPaths(r.t, st1, path)
        blob == encodeShort(hexToCompactInPlace(st.key), childRef(r.st.val))
    IN  finalize(poolPut(r.t, path, reset(r.st)),
                 [st1 EXCEPT !.children[1] = NilNode], path, blob, internal)

\* Faulty variant: the released child stays in the extension's slot.
hashExt_KeepsChild(t, st, path) ==
    LET r == hash(t, st.children[1], path \o st.key)
        st1 == [st EXCEPT !.children[1] = r.st]
        internal == internalPaths(r.t, st1, path)
        blob == encodeShort(hexToCompactInPlace(st.key), childRef(r.st.val))
    IN  finalize(poolPut(r.t, path \o st.key, reset(r.st)), st1, path, blob, internal)

hashExt(t, st, path) ==
    LET r == hash(t, st.children[1], path \o st.key)
        st1 == [st EXCEPT !.children[1] = r.st]
        internal == internalPaths(r.t, st1, path)
        blob == encodeShort(hexToCompactInPlace(st.key), childRef(r.st.val))
    IN  finalize(poolPut(r.t, path \o st.key, reset(r.st)),
                 [st1 EXCEPT !.children[1] = NilNode], path, blob, internal)

\* Faulty variant: the leaf's path is compact-encoded without its terminator.
hashLeaf_NoTerminator(t, st, path) ==
    LET blob == encodeShort(hexToCompactInPlace(st.key), valueNode(st.val))
    IN  finalize(t, st, path, blob, <<>>)

hashLeaf(t, st, path) ==
    LET blob == encodeShort(hexToCompactInPlace(Append(st.key, 16)), valueNode(st.val))
    IN  finalize(t, st, path, blob, <<>>)

\* Faulty variant: the empty node is encoded as the empty string and committed.
hashEmpty_Emits(t, st) == finalize(t, st, <<>>, EmptyString, <<>>)

\* Faulty variant: the empty node gets the empty root but stays empty.
hashEmpty_StaysEmpty(t, st) == [t |-> t, st |-> [st EXCEPT !.val = emptyRoot]]

\* The empty node: it gets the empty root and returns before the emission rule.
hashEmpty(t, st) ==
    [t |-> t, st |-> [st EXCEPT !.val = emptyRoot, !.key = <<>>, !.typ = hashedNode]]

\* Faulty variant: without the shortcut a hashed node is finalized once more.
hash_NoShortcut(t, st, path) ==
    IF st.typ = branchNode THEN hashBranch(t, st, path)
    ELSE IF st.typ = extNode THEN hashExt(t, st, path)
    ELSE IF st.typ = leafNode THEN hashLeaf(t, st, path)
    ELSE hashEmpty(t, st)

hash(t, st, path) ==
    IF st.typ = hashedNode THEN [t |-> t, st |-> st]
    ELSE IF st.typ = branchNode THEN hashBranch(t, st, path)
    ELSE IF st.typ = extNode THEN hashExt(t, st, path)
    ELSE IF st.typ = leafNode THEN hashLeaf(t, st, path)
    ELSE hashEmpty(t, st)

(***************************************************************************)
(* insert(): the insertion engine.  It returns the environment, the node   *)
(* as the call left it, and err: "" or the message of the panic that ended *)
(* the call (what was changed before the panic stays changed).             *)
(***************************************************************************)
ErrInsertExisting == "Trying to insert into existing key"
ErrInsertHashed == "trying to insert into hash"
ErrDeletion == "deletion not supported"
ErrIndex == "index out of range"

\* The nearest occupied slot below idx, or -1: the elder sibling to unresolve.
RECURSIVE elderSibling(_, _)
elderSibling(st, i) ==
    IF i < 0 THEN -1
    ELSE IF st.children[i + 1] # NilNode THEN i
    ELSE elderSibling(st, i - 1)

\* Faulty variant: the elder sibling is left as it is.
unresolveElder_Deferred(t, st, idx, path) == [t |-> t, st |-> st]

\* Faulty variant: the elder sibling is hashed at its parent's path.
unresolveElder_ParentPath(t, st, idx, path) ==
    LET i == elderSibling(st, idx - 1) IN
    IF i >= 0 /\ st.children[i + 1].typ # hashedNode
    THEN LET r == hash(t, st.children[i + 1], path) IN
         [t |-> r.t, st |-> [st EXCEPT !.children[i + 1] = r.st]]
    ELSE [t |-> t, st |-> st]

\* The branch case up to "Add new child": the elder sibling is hashed.
unresolveElder(t, st, idx, path) ==
    LET i == elderSibling(st, idx - 1) IN
    IF i >= 0 /\ st.children[i + 1].typ # hashedNode
    THEN LET r == hash(t, st.children[i + 1], Append(path, i)) IN
         [t |-> r.t, st |-> [st EXCEPT !.children[i + 1] = r.st]]
    ELSE [t |-> t, st |-> st]

\* Faulty variant: the preserved tail is always the child itself.
extTail_ChildOnly(t, st, diffidx, path) == hash(t, st.children[1], path \o st.key)

\* The extension split: the preserved tail, hashed at its path.
extTail(t, st, diffidx, path) ==
    IF diffidx < Len(st.key) - 1
    THEN hash(t, newExt(SubSeq(st.key, diffidx + 2, Len(st.key)), st.children[1]),
              path \o SubSeq(st.key, 1, diffidx + 1))
    ELSE hash(t, st.children[1], path \o st.key)

\* The extension split: the branch p with the tail n and the new leaf o, under
\* the node cut to the common prefix.
extSplit(st, diffidx, n, key, value) ==
    LET o == newLeaf(SubSeq(key, diffidx + 2, Len(key)), value)
        origIdx == st.key[diffidx + 1]
        newIdx == key[diffidx + 1]
    IN  IF diffidx = 0
        THEN [st EXCEPT !.typ = branchNode, !.key = <<>>,
                        !.children = [[[st.children EXCEPT ![1] = NilNode]
                                           EXCEPT ![origIdx + 1] = n]
                                           EXCEPT ![newIdx + 1] = o]]
        ELSE [st EXCEPT !.key = SubSeq(st.key, 1, diffidx),
                        !.children[1] =
                            [poolGet EXCEPT !.typ = branchNode,
                                            !.children = [[NoChildren EXCEPT ![origIdx + 1] = n]
                                                              EXCEPT ![newIdx + 1] = o]]]

\* Faulty variant: the original value's leaf is attached without being hashed.
leafOrig_NotHashed(t, st, diffidx, path) ==
    [t |-> t, st |-> newLeaf(SubSeq(st.key, diffidx + 2, Len(st.key)), st.val)]

\* Faulty variant: the original value's leaf is hashed at the path of the new branch.
leafOrig_BranchPath(t, st, diffidx, path) ==
    hash(t, newLeaf(SubSeq(st.key, diffidx + 2, Len(st.key)), st.val),
         path \o SubSeq(st.key, 1, diffidx))

\* The leaf split: the original value's leaf, hashed at its path.
leafOrig(t, st, diffidx, path) ==
    hash(t, newLeaf(SubSeq(st.key, diffidx + 2, Len(st.key)), st.val),
         path \o SubSeq(st.key, 1, diffidx + 1))

\* Faulty variant: the node that is converted keeps the value it had as a leaf.
leafSplit_KeepsValue(st, diffidx, n, key, value) ==
    LET origIdx == st.key[diffidx + 1]
        newIdx == key[diffidx + 1]
        o == newLeaf(SubSeq(key, diffidx + 2, Len(key)), value)
        kids == [[NoChildren EXCEPT ![origIdx + 1] = n] EXCEPT ![newIdx + 1] = o]
    IN  IF diffidx = 0
        THEN [st EXCEPT !.typ = branchNode, !.key = <<>>,
                        !.children = [[[st.children EXCEPT ![1] = NilNode]
                                           EXCEPT ![origIdx + 1] = n]
                                           EXCEPT ![newIdx + 1] = o]]
        ELSE [st EXCEPT !.typ = extNode, !.key = SubSeq(st.key, 1, diffidx),
                        !.children[1] = [poolGet EXCEPT !.typ = branchNode, !.children = kids]]

\* Faulty variant: the new leaf keeps the nibble that selects its branch slot.
leafSplit_KeepsDiffNibble(st, diffidx, n, key, value) ==
    LET origIdx == st.key[diffidx + 1]
        newIdx == key[diffidx + 1]
        o == newLeaf(SubSeq(key, diffidx + 1, Len(key)), value)
        kids == [[NoChildren EXCEPT ![origIdx + 1] = n] EXCEPT ![newIdx + 1] = o]
    IN  IF diffidx = 0
        THEN [st EXCEPT !.typ = branchNode, !.key = <<>>, !.val = <<>>,
                        !.children = [[[st.children EXCEPT ![1] = NilNode]
                                           EXCEPT ![origIdx + 1] = n]
                                           EXCEPT ![newIdx + 1] = o]]
        ELSE [st EXCEPT !.typ = extNode, !.key = SubSeq(st.key, 1, diffidx), !.val = <<>>,
                        !.children[1] = [poolGet EXCEPT !.typ = branchNode, !.children = kids]]

\* The leaf split: the branch p with the hashed original leaf n and the new
\* leaf, under the node converted to a branch or an extension.
leafSplit(st, diffidx, n, key, value) ==
    LET origIdx == st.key[diffidx + 1]
        newIdx == key[diffidx + 1]
        o == newLeaf(SubSeq(key, diffidx + 2, Len(key)), value)
        kids == [[NoChildren EXCEPT ![origIdx + 1] = n] EXCEPT ![newIdx + 1] = o]
    IN  IF diffidx = 0
        THEN [st EXCEPT !.typ = branchNode, !.key = <<>>, !.val = <<>>,
                        !.children = [[[st.children EXCEPT ![1] = NilNode]
                                           EXCEPT ![origIdx + 1] = n]
                                           EXCEPT ![newIdx + 1] = o]]
        ELSE [st EXCEPT !.typ = extNode, !.key = SubSeq(st.key, 1, diffidx), !.val = <<>>,
                        !.children[1] = [poolGet EXCEPT !.typ = branchNode, !.children = kids]]

RECURSIVE insert(_, _, _, _, _)

\* One more call of insert(): on the node st at path, with key.
enter(t, st, key, path) ==
    [t EXCEPT !.descent = Append(@, [typ |-> st.typ, path |-> path, rem |-> key])]

\* Faulty variant: the recursion into an occupied slot passes the whole key on.
insertBranch_KeepsKey(t, st, key, value, path) ==
    IF key = <<>> THEN [t |-> t, st |-> st, err |-> ErrIndex]
    ELSE LET idx == key[1]
             u == unresolveElder(t, st, idx, path)
         IN  IF u.st.children[idx + 1] = NilNode
             THEN [t |-> u.t,
                   st |-> [u.st EXCEPT !.children[idx + 1] = newLeaf(Tail(key), value)],
                   err |-> ""]
             ELSE LET r == insert(u.t, u.st.children[idx + 1], key, value,
                                  Append(path, key[1]))
                  IN  [t |-> r.t, st |-> [u.st EXCEPT !.children[idx + 1] = r.st],
                       err |-> r.err]

\* Faulty variant: the new leaf keeps the nibble that selects its slot.
insertBranch_KeepsNibble(t, st, key, value, path) ==
    IF key = <<>> THEN [t |-> t, st |-> st, err |-> ErrIndex]
    ELSE LET idx == key[1]
             u == unresolveElder(t, st, idx, path)
         IN  IF u.st.children[idx + 1] = NilNode
             THEN [t |-> u.t,
                   st |-> [u.st EXCEPT !.children[idx + 1] = newLeaf(key, value)],
                   err |-> ""]
             ELSE LET r == insert(u.t, u.st.children[idx + 1], Tail(key), value,
                                  Append(path, key[1]))
                  IN  [t |-> r.t, st |-> [u.st EXCEPT !.children[idx + 1] = r.st],
                       err |-> r.err]

\* Faulty variant: the leaf of the new key is hashed as soon as it is added.
insertBranch_HashesNew(t, st, key, value, path) ==
    IF key = <<>> THEN [t |-> t, st |-> st, err |-> ErrIndex]
    ELSE LET idx == key[1]
             u == unresolveElder(t, st, idx, path)
         IN  IF u.st.children[idx + 1] = NilNode
             THEN LET h == hash(u.t, newLeaf(Tail(key), value), Append(path, idx)) IN
                  [t |-> h.t, st |-> [u.st EXCEPT !.children[idx + 1] = h.st], err |-> ""]
             ELSE LET r == insert(u.t, u.st.children[idx + 1], Tail(key), value,
                                  Append(path, key[1]))
                  IN  [t |-> r.t, st |-> [u.st EXCEPT !.children[idx + 1] = r.st],
                       err |-> r.err]

insertBranch(t, st, key, value, path) ==
    IF key = <<>> THEN [t |-> t, st |-> st, err |-> ErrIndex]
    ELSE LET idx == key[1]
             u == unresolveElder(t, st, idx, path)
         IN  IF u.st.children[idx + 1] = NilNode
             THEN [t |-> u.t,
                   st |-> [u.st EXCEPT !.children[idx + 1] = newLeaf(Tail(key), value)],
                   err |-> ""]
             ELSE LET r == insert(u.t, u.st.children[idx + 1], Tail(key), value,
                                  Append(path, key[1]))
                  IN  [t |-> r.t, st |-> [u.st EXCEPT !.children[idx + 1] = r.st],
                       err |-> r.err]

insertExt(t, st, key, value, path) ==
    LET diffidx == getDiffIndex(st, key) IN
    IF diffidx < 0 THEN [t |-> t, st |-> st, err |-> ErrIndex]
    ELSE IF diffidx = Len(st.key)
    THEN LET r == insert(t, st.children[1], SubSeq(key, diffidx + 1, Len(key)), value,
                         path \o SubSeq(key, 1, diffidx))
         IN  [t |-> r.t, st |-> [st EXCEPT !.children[1] = r.st], err |-> r.err]
    ELSE LET h == extTail(t, st, diffidx, path) IN
         [t |-> h.t, st |-> extSplit(st, diffidx, h.st, key, value), err |-> ""]

\* Faulty variant: the leaf of a key that is already present is hashed before
\* the insert fails.
insertLeaf_HashesFirst(t, st, key, value, path) ==
    LET diffidx == getDiffIndex(st, key) IN
    IF diffidx < 0 THEN [t |-> t, st |-> st, err |-> ErrIndex]
    ELSE IF diffidx >= Len(st.key)
    THEN LET h == hash(t, st, path) IN [t |-> h.t, st |-> h.st, err |-> ErrInsertExisting]
    ELSE LET h == leafOrig(t, st, diffidx, path) IN
         [t |-> h.t, st |-> leafSplit(st, diffidx, h.st, key, value), err |-> ""]

\* Faulty variant: a key that is already present gets the new value.
insertLeaf_Overwrites(t, st, key, value, path) ==
    LET diffidx == getDiffIndex(st, key) IN
    IF diffidx < 0 THEN [t |-> t, st |-> st, err |-> ErrIndex]
    ELSE IF diffidx >= Len(st.key) THEN [t |-> t, st |-> [st EXCEPT !.val = value], err |-> ""]
    ELSE LET h == leafOrig(t, st, diffidx, path) IN
         [t |-> h.t, st |-> leafSplit(st, diffidx, h.st, key, value), err |-> ""]

insertLeaf(t, st, key, value, path) ==
    LET diffidx == getDiffIndex(st, key) IN
    IF diffidx < 0 THEN [t |-> t, st |-> st, err |-> ErrIndex]
    ELSE IF diffidx >= Len(st.key) THEN [t |-> t, st |-> st, err |-> ErrInsertExisting]
    ELSE LET h == leafOrig(t, st, diffidx, path) IN
         [t |-> h.t, st |-> leafSplit(st, diffidx, h.st, key, value), err |-> ""]

\* Faulty variant: the empty node stays empty.
insertEmpty_StaysEmpty(t, st, key, value) == [t |-> t, st |-> st, err |-> ""]

insertEmpty(t, st, key, value) ==
    [t |-> t, st |-> [st EXCEPT !.typ = leafNode, !.key = key, !.val = value], err |-> ""]

\* Faulty variant: a hashed node is taken for an empty one and becomes a leaf.
insert_IntoHashed(t, st, key, value, path) ==
    LET t1 == enter(t, st, key, path) IN
    IF st.typ = branchNode THEN insertBranch(t1, st, key, value, path)
    ELSE IF st.typ = extNode THEN insertExt(t1, st, key, value, path)
    ELSE IF st.typ = leafNode THEN insertLeaf(t1, st, key, value, path)
    ELSE insertEmpty(t1, st, key, value)

\* t.descent logs the calls of insert() that one Update makes: the kind of the
\* node, its path and the key the call was given.
insert(t, st, key, value, path) ==
    LET t1 == enter(t, st, key, path) IN
    IF st.typ = branchNode THEN insertBranch(t1, st, key, value, path)
    ELSE IF st.typ = extNode THEN insertExt(t1, st, key, value, path)
    ELSE IF st.typ = leafNode THEN insertLeaf(t1, st, key, value, path)
    ELSE IF st.typ = emptyNode THEN insertEmpty(t1, st, key, value)
    ELSE [t |-> t1, st |-> st, err |-> ErrInsertHashed]

(***************************************************************************)
(* The StackTrie and its public operations.                                *)
(***************************************************************************)
\* A nil []byte (first and last before the first Update).
NilSlice == <<-1>>

\* NewStackTrieOptions(): no writer, no cleaner, no flags, no gauge.
NewStackTrieOptions ==
    [Writer |-> FALSE, Cleaner |-> FALSE, SkipLeftBoundary |-> FALSE,
     SkipRightBoundary |-> FALSE, boundaryGauge |-> FALSE]

\* The options a trie is constructed with.
OptionSets ==
    { NewStackTrieOptions,
      [NewStackTrieOptions EXCEPT !.Cleaner = TRUE, !.SkipLeftBoundary = TRUE,
                                  !.SkipRightBoundary = TRUE, !.boundaryGauge = TRUE],
      [NewStackTrieOptions EXCEPT !.Writer = TRUE, !.Cleaner = TRUE],
      [NewStackTrieOptions EXCEPT !.Writer = TRUE, !.Cleaner = TRUE,
                                  !.SkipLeftBoundary = TRUE, !.boundaryGauge = TRUE],
      [NewStackTrieOptions EXCEPT !.Writer = TRUE, !.Cleaner = TRUE,
                                  !.SkipRightBoundary = TRUE, !.boundaryGauge = TRUE],
      [NewStackTrieOptions EXCEPT !.Writer = TRUE, !.SkipLeftBoundary = TRUE,
                                  !.SkipRightBoundary = TRUE, !.boundaryGauge = TRUE] }

\* The environment of insert() and hash() during the public operation at.
Env(fst, lst, at) ==
    [options |-> options, first |-> fst, last |-> lst, gauge |-> gauge,
     calls |-> calls, finals |-> finals, pool |-> pool, at |-> at, descent |-> <<>>]

\* NewStackTrie(options)
Init ==
    /\ options \in OptionSets
    /\ root = poolGet
    /\ first = NilSlice
    /\ last = NilSlice
    /\ gauge = 0
    /\ calls = <<>>
    /\ finals = <<>>
    /\ updates = <<>>
    /\ ret = [op |-> "New", hash |-> <<>>, err |-> "", panic |-> "", again |-> FALSE]
    /\ pool = <<>>
    /\ reused = FALSE

\* Faulty variant: first follows every inserted key, as last does.
Update_FirstFollows(key, value) ==
    /\ Len(updates) < MaxUpdates
    /\ LET hex == keybytesToHex(key)
           k == SubSeq(hex, 1, Len(hex) - 1)
           at == [op |-> "Update", n |-> Len(updates) + 1]
       IN  IF Len(value) = 0
           THEN /\ updates' = Append(updates, [key |-> key, value |-> value, err |-> ErrDeletion,
                                            sealed |-> root.typ = hashedNode,
                                            descent |-> <<>>])
                /\ ret' = [op |-> "Update", hash |-> <<>>, err |-> "", panic |-> ErrDeletion,
                           again |-> FALSE]
                /\ UNCHANGED <<options, root, first, last, gauge, calls, finals, pool, reused>>
           ELSE LET r == insert(Env(k, k, at), root, k, value, <<>>) IN
                /\ root' = r.st
                /\ first' = k
                /\ last' = k
                /\ gauge' = r.t.gauge
                /\ calls' = r.t.calls
                /\ finals' = r.t.finals
                /\ pool' = r.t.pool
                /\ updates' = Append(updates, [key |-> key, value |-> value, err |-> r.err,
                                                sealed |-> root.typ = hashedNode,
                                                descent |-> r.t.descent])
                /\ ret' = [op |-> "Update", hash |-> <<>>, err |-> "", panic |-> r.err,
                           again |-> FALSE]
                /\ UNCHANGED <<options, reused>>

\* Faulty variant: first and last are tracked before the value is looked at.
Update_TracksFirst(key, value) ==
    /\ Len(updates) < MaxUpdates
    /\ LET hex == keybytesToHex(key)
           k == SubSeq(hex, 1, Len(hex) - 1)
           fst == IF first = NilSlice THEN k ELSE first
           at == [op |-> "Update", n |-> Len(updates) + 1]
           r == IF Len(value) = 0 THEN [t |-> Env(fst, k, at), st |-> root, err |-> ErrDeletion]
                ELSE insert(Env(fst, k, at), root, k, value, <<>>)
       IN  /\ root' = r.st
           /\ first' = fst
           /\ last' = k
           /\ gauge' = r.t.gauge
           /\ calls' = r.t.calls
           /\ finals' = r.t.finals
           /\ pool' = r.t.pool
           /\ updates' = Append(updates, [key |-> key, value |-> value, err |-> r.err,
                                           sealed |-> root.typ = hashedNode,
                                           descent |-> r.t.descent])
           /\ ret' = [op |-> "Update", hash |-> <<>>, err |-> "", panic |-> r.err,
                      again |-> FALSE]
           /\ UNCHANGED <<options, reused>>

\* Update / TryUpdate(key, value).  updates logs the call: its arguments, the
\* panic that ended it ("" when it returned), whether the root was already
\* hashed when it was made, and the calls of insert() it made.  ret is what the caller observes: err is the error
\* TryUpdate returned (it only ever returns nil), panic the message of the
\* panic that left the call.
Update(key, value) ==
    /\ Len(updates) < MaxUpdates
    /\ LET hex == keybytesToHex(key)
           k == SubSeq(hex, 1, Len(hex) - 1)
           fst == IF first = NilSlice THEN k ELSE first
           at == [op |-> "Update", n |-> Len(updates) + 1]
       IN  IF Len(value) = 0
           THEN /\ updates' = Append(updates, [key |-> key, value |-> value, err |-> ErrDeletion,
                                            sealed |-> root.typ = hashedNode,
                                            descent |-> <<>>])
                /\ ret' = [op |-> "Update", hash |-> <<>>, err |-> "", panic |-> ErrDeletion,
                           again |-> FALSE]
                /\ UNCHANGED <<options, root, first, last, gauge, calls, finals, pool, reused>>
           ELSE LET r == insert(Env(fst, k, at), root, k, value, <<>>) IN
                /\ root' = r.st
                /\ first' = fst
                /\ last' = k
                /\ gauge' = r.t.gauge
                /\ calls' = r.t.calls
                /\ finals' = r.t.finals
                /\ pool' = r.t.pool
                /\ updates' = Append(updates, [key |-> key, value |-> value, err |-> r.err,
                                                sealed |-> root.typ = hashedNode,
                                                descent |-> r.t.descent])
                /\ ret' = [op |-> "Update", hash |-> <<>>, err |-> "", panic |-> r.err,
                           again |-> FALSE]
                /\ UNCHANGED <<options, reused>>

\* Hash().  ret.again tells that the operation before this one was Hash too.
Hash ==
    LET r == hash(Env(first, last, [op |-> "Hash", n |-> Len(updates)]), root, <<>>) IN
    /\ root' = r.st
    /\ gauge' = r.t.gauge
    /\ calls' = r.t.calls
    /\ finals' = r.t.finals
    /\ pool' = r.t.pool
    /\ ret' = [op |-> "Hash", hash |-> BytesToHash(r.st.val), err |-> "", panic |-> "",
               again |-> ret.op = "Hash"]
    /\ UNCHANGED <<options, first, last, updates, reused>>

\* Faulty variant: Commit returns the root's value without hashing the trie.
Commit_ReturnsOnly ==
    /\ ret' = [op |-> "Hash", hash |-> BytesToHash(root.val), err |-> "", panic |-> "",
               again |-> ret.op = "Hash"]
    /\ UNCHANGED <<options, root, first, last, gauge, calls, finals, updates, pool, reused>>

\* Commit(): it returns t.Hash().
Commit == Hash

\* The nodes reachable from st, which is at path: each with its path.
RECURSIVE Reachable(_, _)
Reachable(st, path) ==
    {[path |-> path, node |-> st]} \cup
        UNION {Reachable(st.children[i],
                         IF st.typ = extNode THEN path \o st.key ELSE Append(path, i - 1)) :
                   i \in {j \in 1..16 : st.children[j] # NilNode}}

\* Faulty variant: Reset keeps the options the trie was constructed with.
Reset_KeepsOptions ==
    /\ root' = poolGet
    /\ first' = NilSlice
    /\ last' = NilSlice
    /\ gauge' = 0
    /\ calls' = <<>>
    /\ finals' = <<>>
    /\ updates' = <<>>
    /\ ret' = [op |-> "Reset", hash |-> <<>>, err |-> "", panic |-> "", again |-> FALSE,
               dropped |-> Cardinality(Reachable(root, <<>>))]
    /\ pool' = <<>>
    /\ reused' = TRUE
    /\ UNCHANGED options

\* Faulty variant: Reset hands the nodes of the old trie back to the pool.
Reset_ReleasesNodes ==
    /\ options' = NewStackTrieOptions
    /\ root' = poolGet
    /\ first' = NilSlice
    /\ last' = NilSlice
    /\ gauge' = 0
    /\ calls' = <<>>
    /\ finals' = <<>>
    /\ updates' = <<>>
    /\ ret' = [op |-> "Reset", hash |-> <<>>, err |-> "", panic |-> "", again |-> FALSE,
               dropped |-> Cardinality(Reachable(root, <<>>))]
    /\ pool' = <<[path |-> <<>>, node |-> reset(root), at |-> [op |-> "Reset", n |-> 0]]>>
    /\ reused' = TRUE

\* Reset(): a new lifetime; the callback stream and the logs start again.  It
\* puts no node into the pool: the old root is dropped with all it holds
\* (ret.dropped counts these nodes) and a node from the pool is the new root.
Reset ==
    /\ options' = NewStackTrieOptions
    /\ root' = poolGet
    /\ first' = NilSlice
    /\ last' = NilSlice
    /\ gauge' = 0
    /\ calls' = <<>>
    /\ finals' = <<>>
    /\ updates' = <<>>
    /\ ret' = [op |-> "Reset", hash |-> <<>>, err |-> "", panic |-> "", again |-> FALSE,
               dropped |-> Cardinality(Reachable(root, <<>>))]
    /\ pool' = <<>>
    /\ reused' = TRUE

\* No Update of this lifetime has panicked.
Alive == \A i \in 1..Len(updates) : updates[i].err = ""

\* The caller's contract: keys arrive in strictly increasing order, and a trie
\* whose Update panicked gets no further Update before Reset.
InOrder(key) ==
    /\ Alive
    /\ IF updates = <<>> THEN TRUE ELSE BytesLess(updates[Len(updates)].key, key)

UpdateInOrder == \E key \in Keys, value \in Vals : InOrder(key) /\ Update(key, value)

Next == UpdateInOrder \/ Hash \/ Commit \/ Reset

Spec == Init /\ [][Next]_vars

\* Callers that do not keep the contract: keys in any order, equal keys and
\* empty values.  A trie whose Update panicked gets no further Update.
AnyKeys == {<<>>, <<0>>, <<1>>, <<16>>, <<0, 0>>, <<0, 16>>}
AnyVals == {<<>>, Tiny, Long}

UpdateAny == \E key \in AnyKeys, value \in AnyVals : Alive /\ Update(key, value)

NextAny == UpdateAny \/ Hash \/ Commit \/ Reset

SpecAny == Init /\ [][NextAny]_vars

\* Callers that go on after a failure on a hashed trie: an Update that
\* panicked because the root is hashed may be followed by further Updates.
UpdateSealed ==
    \E key \in AnyKeys, value \in AnyVals :
        (Alive \/ root.typ = hashedNode) /\ Update(key, value)

NextSealed == UpdateSealed \/ Hash \/ Commit \/ Reset

SpecSealed == Init /\ [][NextSealed]_vars

\* Callers that pass keys of one length in any order.
EqualKeyBytes == {0, 1, 16, 17, 32}
EqualKeys ==
    {<<b>> : b \in EqualKeyBytes} \cup {<<a, b>> : a \in FirstBytes, b \in {0, 1, 16}}

UpdateEqual ==
    \E key \in EqualKeys, value \in Vals :
        /\ Alive
        /\ IF updates = <<>> THEN TRUE ELSE Len(key) = Len(updates[1].key)
        /\ Update(key, value)

NextEqual == UpdateEqual \/ Hash \/ Commit \/ Reset

SpecEqual == Init /\ [][NextEqual]_vars

(***************************************************************************)
(* The reference Merkle Patricia trie of a set of pairs, built top-down    *)
(* from the keys.  A pair is [k |-> nibbles ending in the terminator 16,   *)
(* v |-> value].                                                           *)
(***************************************************************************)
\* A node's reference inside its parent: inline below 32 bytes, else the digest.
refOf(blob) == IF Len(blob) < 32 THEN rawNode(blob) ELSE hashNode(hashData(blob))

\* The length of the longest common prefix of the keys of P.
RECURSIVE commonPrefix(_, _)
commonPrefix(P, n) ==
    LET k == (CHOOSE p \in P : TRUE).k IN
    IF n < Len(k) /\ \A p \in P : n < Len(p.k) /\ p.k[n + 1] = k[n + 1]
    THEN commonPrefix(P, n + 1)
    ELSE n

dropKeys(P, n) == {[k |-> SubSeq(p.k, n + 1, Len(p.k)), v |-> p.v] : p \in P}

\* The node for the non-empty set P at path: its encoding and the set of all
\* nodes (path and encoding) of its subtree that are not values.
RECURSIVE refBuild(_, _)
refBuild(P, path) ==
    IF Cardinality(P) = 1
    THEN LET p == CHOOSE q \in P : TRUE
             blob == encodeShort(hexToCompactInPlace(p.k), valueNode(p.v))
         IN  [blob |-> blob, nodes |-> {[path |-> path, blob |-> blob]}]
    ELSE LET n == commonPrefix(P, 0) IN
         IF n > 0
         THEN LET pre == SubSeq((CHOOSE q \in P : TRUE).k, 1, n)
                  c == refBuild(dropKeys(P, n), path \o pre)
                  blob == encodeShort(hexToCompactInPlace(pre), refOf(c.blob))
              IN  [blob |-> blob, nodes |-> c.nodes \cup {[path |-> path, blob |-> blob]}]
         ELSE LET sub(i) == dropKeys({p \in P : p.k[1] = i}, 1)
                  kid == [i \in 0..15 |->
                             IF sub(i) = {} THEN [blob |-> <<>>, nodes |-> {}]
                             ELSE refBuild(sub(i), Append(path, i))]
                  here == {p \in P : p.k = <<16>>}
                  slots == [i \in 1..17 |->
                               IF i = 17
                               THEN IF here = {} THEN nilRef
                                    ELSE valueNode((CHOOSE p \in here : TRUE).v)
                               ELSE IF sub(i - 1) = {} THEN nilRef
                               ELSE refOf(kid[i - 1].blob)]
                  blob == encodeFull(slots)
              IN  [blob |-> blob,
                   nodes |-> UNION {kid[i].nodes : i \in 0..15}
                                 \cup {[path |-> path, blob |-> blob]}]

\* The reference root hash of a set of pairs.
RefRoot(P) == IF P = {} THEN emptyRoot ELSE hashData(refBuild(P, <<>>).blob)

\* The nodes of the reference trie.
RefNodes(P) == IF P = {} THEN {} ELSE refBuild(P, <<>>).nodes

(***************************************************************************)
(* An independent reader of committed nodes: RLP and compact decoding, and *)
(* the traversal of a path-addressed node store.                           *)
(***************************************************************************)
\* The number a big-endian byte string stands for.
RECURSIVE beNum(_)
beNum(b) == IF b = <<>> THEN 0 ELSE 256 * beNum(SubSeq(b, 1, Len(b) - 1)) + b[Len(b)][1]

\* The RLP item at the head of b: whether it is a list, and the lengths of
\* its header and of its payload.
itemHead(b) ==
    LET c == b[1][1] IN
    IF c < 128 THEN [list |-> FALSE, hdr |-> 0, len |-> 1]
    ELSE IF c < 184 THEN [list |-> FALSE, hdr |-> 1, len |-> c - 128]
    ELSE IF c < 192
    THEN [list |-> FALSE, hdr |-> c - 182, len |-> beNum(SubSeq(b, 2, c - 182))]
    ELSE IF c < 248 THEN [list |-> TRUE, hdr |-> 1, len |-> c - 192]
    ELSE [list |-> TRUE, hdr |-> c - 246, len |-> beNum(SubSeq(b, 2, c - 246))]

\* The RLP items b is the concatenation of: raw encoding and payload of each.
RECURSIVE rlpItems(_)
rlpItems(b) ==
    IF b = <<>> THEN <<>>
    ELSE LET h == itemHead(b)
             n == h.hdr + h.len
         IN  <<[list |-> h.list, raw |-> SubSeq(b, 1, n), body |-> SubSeq(b, h.hdr + 1, n)]>>
                 \o rlpItems(SubSeq(b, n + 1, Len(b)))

\* The elements of the list a node blob encodes: 2 for a short node, 17 for
\* a full node.
nodeItems(blob) == rlpItems(rlpItems(blob)[1].body)

RECURSIVE unpackNibbles(_)
unpackNibbles(b) ==
    IF b = <<>> THEN <<>>
    ELSE <<b[1][1] \div 16, b[1][1] % 16>> \o unpackNibbles(Tail(b))

\* Compact decoding: the leaf flag and the nibbles (without terminator).
compactToHex(c) ==
    LET flags == c[1][1] \div 16 IN
    [leaf |-> flags \div 2 = 1,
     nibbles |-> (IF flags % 2 = 1 THEN <<c[1][1] % 16>> ELSE <<>>) \o unpackNibbles(Tail(c))]

\* The blob encodes an extension node.
isExtBlob(blob) ==
    /\ Len(nodeItems(blob)) = 2
    /\ ~compactToHex(nodeItems(blob)[1].body).leaf

\* The nibble path of an extension blob, and whether its child is a digest.
extPath(blob) == compactToHex(nodeItems(blob)[1].body).nibbles

extChildIsDigest(blob) ==
    ~nodeItems(blob)[2].list /\ Len(nodeItems(blob)[2].body) = HashLength

\* What a traversal yields for a child that the store does not hold under
\* the digest its parent names.
Broken == [k |-> <<-1>>, v |-> <<>>]

\* The pairs (key nibbles, value) reachable from the node blob at path, inline
\* children read from the blob, digest children from the store at their path.
RECURSIVE resolve(_, _, _)
RECURSIVE resolveRef(_, _, _)
resolveRef(store, path, item) ==
    IF item.list THEN resolve(store, path, item.raw)
    ELSE IF item.body = <<>> THEN {}
    ELSE IF path \in DOMAIN store /\ hashData(store[path]) = item.body
    THEN resolve(store, path, store[path])
    ELSE {Broken}

resolve(store, path, blob) ==
    LET items == nodeItems(blob) IN
    IF Len(items) = 2
    THEN LET ck == compactToHex(items[1].body) IN
         IF ck.leaf THEN {[k |-> path \o ck.nibbles, v |-> items[2].body]}
         ELSE resolveRef(store, path \o ck.nibbles, items[2])
    ELSE UNION {resolveRef(store, Append(path, i), items[i + 1]) : i \in 0..15}
             \cup (IF items[17].body = <<>> THEN {} ELSE {[k |-> path, v |-> items[17].body]})

(***************************************************************************)
(* What a state says about the build so far.                               *)
(***************************************************************************)
\* The pairs of the Updates that returned, keys as nibbles with terminator.
Pairs ==
    {[k |-> keybytesToHex(updates[i].key), v |-> updates[i].value] :
        i \in {j \in 1..Len(updates) : updates[j].err = ""}}

\* The keys were passed in strictly increasing order with non-empty values.
StrictlyIncreasing ==
    /\ \A i \in 1..(Len(updates) - 1) : BytesLess(updates[i].key, updates[i + 1].key)
    /\ \A i \in 1..Len(updates) : Len(updates[i].value) > 0

\* No key passed to Update is a proper prefix of another one.
PrefixFree ==
    \A i, j \in 1..Len(updates) :
        ~(Len(updates[i].key) < Len(updates[j].key)
          /\ HasPrefix(updates[j].key, updates[i].key))

\* A whole build: every Update of this lifetime was made before the first
\* Hash, and Hash has returned.
Built == ret.op = "Hash" /\ \A i \in 1..Len(updates) : ~updates[i].sealed

\* The indices of the writer (cleaner) calls in the callback stream.
WriterIdx == {i \in 1..Len(calls) : calls[i].op = "writer"}
CleanerIdx == {i \in 1..Len(calls) : calls[i].op = "cleaner"}

\* p is a proper prefix of q.
ProperPrefix(p, q) == Len(p) < Len(q) /\ HasPrefix(q, p)

(***************************************************************************)
(* C1.  The root of an in-order build is the reference root.               *)
(***************************************************************************)
\* C1 as stated: for every strictly increasing sequence of distinct keys with
\* non-empty values, every Update returns and Hash() returns the root hash of
\* the reference trie of the same pairs.
C1_AnySortedKeys ==
    (Built /\ StrictlyIncreasing) => (Alive /\ ret.hash = RefRoot(Pairs))

\* C1 amended: the same for sequences in which no key is a proper prefix of
\* another key (the builder keeps no value in a branch).
C1_RootMatchesReference ==
    (Built /\ StrictlyIncreasing /\ PrefixFree) => (Alive /\ ret.hash = RefRoot(Pairs))

\* Three keys of two lengths were inserted and hashed to the reference root.
C1_Witness ==
    /\ Built /\ StrictlyIncreasing /\ PrefixFree /\ Alive
    /\ Len(updates) = 3
    /\ \E i, j \in 1..3 : Len(updates[i].key) # Len(updates[j].key)
    /\ ret.hash = RefRoot(Pairs)
    /\ ret.hash # emptyRoot

(***************************************************************************)
(* C2.  Bottom-up commit order.                                            *)
(***************************************************************************)
\* C2: whenever the writer is called for a path p and for a path q that has
\* p as a proper prefix, the call for q comes first in the callback stream.
C2_BottomUp ==
    \A i, j \in WriterIdx :
        ProperPrefix(calls[i].path, calls[j].path) => j < i

\* A whole build wrote a node after two of its descendants.
C2_Witness ==
    /\ Built /\ Alive
    /\ \E i, j, k \in WriterIdx :
          /\ j < k /\ k < i
          /\ ProperPrefix(calls[i].path, calls[j].path)
          /\ ProperPrefix(calls[i].path, calls[k].path)
          /\ calls[j].at.op = "Update"

(***************************************************************************)
(* C3.  No path is written twice within one trie lifetime.                 *)
(***************************************************************************)
\* C3: within one lifetime the writer is never called twice with the same
\* path, so no (path, hash) pair is emitted more than once.
C3_PathWrittenOnce ==
    \A i, j \in WriterIdx : calls[i].path = calls[j].path => i = j

\* Hash was called again after a build that wrote at least three nodes.
C3_Witness ==
    /\ ret.op = "Hash"
    /\ Cardinality(WriterIdx) >= 3
    /\ \E i \in 1..Len(updates) : updates[i].sealed

(***************************************************************************)
(* C4.  The writer receives the nodes of the final trie that are stored by *)
(* digest.                                                                 *)
(***************************************************************************)
\* The committed nodes: path and blob of every writer call.
Committed == {[path |-> calls[i].path, blob |-> calls[i].blob] : i \in WriterIdx}

\* A build with a writer and no boundary flag in which every Update returned.
PlainBuild ==
    /\ Built /\ StrictlyIncreasing /\ Alive
    /\ options.Writer /\ ~options.SkipLeftBoundary /\ ~options.SkipRightBoundary

\* C4 as stated: the writer calls are exactly the nodes of the final trie whose
\* encoding is at least 32 bytes, each path once.
C4_OnlyLongNodes ==
    PlainBuild =>
        /\ Committed = {n \in RefNodes(Pairs) : Len(n.blob) >= 32}
        /\ Cardinality(WriterIdx) = Cardinality(Committed)

\* C4 amended: the writer calls are exactly the root node (whatever the length
\* of its encoding) and the nodes of the final trie whose encoding is at least
\* 32 bytes, each path once.
C4_RootAndLongNodes ==
    PlainBuild =>
        /\ Committed = {n \in RefNodes(Pairs) : Len(n.blob) >= 32 \/ n.path = <<>>}
        /\ Cardinality(WriterIdx) = Cardinality(Committed)
        /\ \A i \in WriterIdx : calls[i].hash = hashData(calls[i].blob)

\* A build whose final trie has inline nodes and at least three written ones.
C4_Witness ==
    /\ PlainBuild
    /\ Cardinality(WriterIdx) >= 3
    /\ \E n \in RefNodes(Pairs) : Len(n.blob) < 32 /\ n.path # <<>>

(***************************************************************************)
(* C5.  A single key with a short leaf.                                    *)
(***************************************************************************)
\* The encoding of the leaf of a trie that holds the single pair (key, value).
leafBlob(key, value) == encodeShort(hexToCompactInPlace(keybytesToHex(key)), valueNode(value))

\* The build is a single Update whose leaf encodes to less than 32 bytes.
SingleShortLeaf ==
    /\ Built /\ Alive /\ Len(updates) = 1
    /\ Len(leafBlob(updates[1].key, updates[1].value)) < 32

\* C5 as stated: Hash() makes no writer call for the leaf and returns the
\* digest of the leaf's encoding.
C5_NoWriterCall ==
    SingleShortLeaf =>
        /\ WriterIdx = {}
        /\ ret.hash = hashData(leafBlob(updates[1].key, updates[1].value))

\* C5 amended: Hash() returns the digest of the leaf's encoding, and the leaf,
\* being the root, goes through the emission rule: with a writer and no
\* boundary flag it is written once, at the empty path, with that digest and
\* encoding; without a writer or with a boundary flag nothing is written.
C5_RootLeafIsWritten ==
    SingleShortLeaf =>
        LET blob == leafBlob(updates[1].key, updates[1].value) IN
        /\ ret.hash = hashData(blob)
        /\ IF options.Writer /\ ~options.SkipLeftBoundary /\ ~options.SkipRightBoundary
           THEN /\ Len(calls) = 1
                /\ calls[1].op = "writer" /\ calls[1].path = <<>>
                /\ calls[1].hash = hashData(blob) /\ calls[1].blob = blob
           ELSE calls = <<>>

\* A single short leaf was hashed by a trie with a writer.
C5_Witness ==
    /\ SingleShortLeaf
    /\ options.Writer /\ ~options.SkipLeftBoundary /\ ~options.SkipRightBoundary
    /\ calls # <<>>

(***************************************************************************)
(* C6.  Round trip through a path-addressed node store.                    *)
(***************************************************************************)
\* The store the writer calls fill: path to blob.
Store ==
    [p \in {calls[i].path : i \in WriterIdx} |->
        calls[CHOOSE i \in WriterIdx : calls[i].path = p
                                       /\ \A j \in WriterIdx : calls[j].path = p => j <= i].blob]

\* The inserted pairs as the traversal names them: nibbles without terminator.
PlainPairs == {[k |-> SubSeq(p.k, 1, Len(p.k) - 1), v |-> p.v] : p \in Pairs}

\* C6: in a build with a writer and no boundary flag, resolving the stored
\* nodes from the one at the empty path yields exactly the inserted pairs, and
\* the digest of the node at the empty path is the value Hash() returned (for
\* the empty trie nothing is stored and Hash() is the empty root).
C6_RoundTrip ==
    PlainBuild =>
        IF Pairs = {} THEN calls = <<>> /\ ret.hash = emptyRoot
        ELSE /\ <<>> \in DOMAIN Store
             /\ hashData(Store[<<>>]) = ret.hash
             /\ resolve(Store, <<>>, Store[<<>>]) = PlainPairs

\* A three-key build whose traversal follows digest and inline children.
C6_Witness ==
    /\ PlainBuild /\ Len(updates) = 3
    /\ Cardinality(DOMAIN Store) >= 3
    /\ \E n \in RefNodes(Pairs) : Len(n.blob) < 32 /\ n.path # <<>>
    /\ resolve(Store, <<>>, Store[<<>>]) = PlainPairs

(***************************************************************************)
(* C7.  The inline-versus-hash rule.                                       *)
(***************************************************************************)
\* C7: a finalized node at a non-empty path whose encoding is shorter than 32
\* bytes keeps a copy of the encoding as its value and is not handed to the
\* emission rule (no writer call has its path); every other finalized node
\* gets the 32-byte digest of its encoding and is handed to the emission
\* rule, which, with a writer and no boundary flag, writes (path, digest,
\* encoding).
C7_InlineOrHash ==
    \A n \in 1..Len(finals) :
        LET f == finals[n] IN
        IF Len(f.path) > 0 /\ Len(f.blob) < 32
        THEN /\ f.val = f.blob /\ ~f.sink
             /\ \A i \in WriterIdx : calls[i].path # f.path
        ELSE /\ f.val = hashData(f.blob) /\ Len(f.val) = 32 /\ f.sink
             /\ (options.Writer /\ ~options.SkipLeftBoundary /\ ~options.SkipRightBoundary)
                    => \E i \in WriterIdx : /\ calls[i].path = f.path
                                            /\ calls[i].hash = f.val
                                            /\ calls[i].blob = f.blob

\* A build finalized an inline node below a root that is itself short.
C7_Witness ==
    /\ Built /\ options.Writer
    /\ \E a, b \in 1..Len(finals) :
          /\ Len(finals[a].path) > 0 /\ Len(finals[a].blob) < 32
          /\ finals[b].path = <<>> /\ Len(finals[b].blob) < 32
    /\ WriterIdx # {}

(***************************************************************************)
(* C8.  Boundary skipping.                                                 *)
(***************************************************************************)
\* C8: with SkipLeftBoundary no written path is a prefix of the first inserted
\* key's nibble path; with SkipRightBoundary no written path is a prefix of
\* the nibble path of the last inserted key.
C8_BoundarySkipped ==
    StrictlyIncreasing =>
        /\ options.SkipLeftBoundary =>
               \A i \in WriterIdx : ~HasPrefix(first, calls[i].path)
        /\ options.SkipRightBoundary =>
               \A i \in WriterIdx : ~HasPrefix(last, calls[i].path)

\* A build with both flags wrote a node and skipped boundary nodes.
C8_Witness ==
    /\ Built /\ Alive
    /\ options.SkipLeftBoundary /\ options.SkipRightBoundary
    /\ WriterIdx # {}
    /\ gauge >= 2

(***************************************************************************)
(* C9, C10.  The cleaner calls of an extension.                            *)
(***************************************************************************)
\* The cleanup entries of the node written by call j: for an extension with
\* nibble path e at path p whose child is stored by digest, p ++ e[..i] for
\* i = 1 .. len(e)-1, when a cleaner is configured; none otherwise.
CleanupEntries(j) ==
    IF options.Cleaner /\ isExtBlob(calls[j].blob) /\ extChildIsDigest(calls[j].blob)
    THEN [i \in 1..(Len(extPath(calls[j].blob)) - 1) |->
             calls[j].path \o SubSeq(extPath(calls[j].blob), 1, i)]
    ELSE <<>>

\* The paths of the cleaner calls made since the writer call before call j.
RECURSIVE CleanedBefore(_)
CleanedBefore(j) ==
    IF j = 1 \/ calls[j - 1].op = "writer" THEN <<>>
    ELSE Append(CleanedBefore(j - 1), calls[j - 1].path)

\* C9: for every extension written at p with cleanup entries q, every cleaner
\* call for q is made before the writer call for p and after the writer calls
\* of all committed descendants of p, and there is such a call.
C9_CleanBeforeWrite ==
    \A j \in WriterIdx :
        \A n \in 1..Len(CleanupEntries(j)) :
            /\ \E c \in CleanerIdx : calls[c].path = CleanupEntries(j)[n]
            /\ \A c \in CleanerIdx :
                   calls[c].path = CleanupEntries(j)[n] =>
                       /\ c < j
                       /\ \A d \in WriterIdx :
                              ProperPrefix(calls[j].path, calls[d].path) => d < c

\* An extension with two cleanup entries was written after its descendants.
C9_Witness ==
    \E j \in WriterIdx :
        /\ Len(CleanupEntries(j)) >= 2
        /\ \E d \in WriterIdx : ProperPrefix(calls[j].path, calls[d].path)

\* C10: the cleaner calls made for a written node are exactly its cleanup
\* entries: for an extension at p with nibble path e whose child is stored by
\* digest, p ++ e[..i] for i = 1 .. len(e)-1 (never p, never p ++ e); none for
\* an extension with an inline child or a path of length 1, and none for a
\* leaf or a branch.  No cleaner call is made but for a written node.
C10_CleanerPaths ==
    /\ \A j \in WriterIdx : CleanedBefore(j) = CleanupEntries(j)
    /\ calls # <<>> => calls[Len(calls)].op = "writer"

\* A build wrote an extension with two cleanup entries, and leaves and
\* branches.
C10_Witness ==
    /\ options.Cleaner
    /\ \E j \in WriterIdx : Len(CleanupEntries(j)) >= 2
    /\ \E j \in WriterIdx : ~isExtBlob(calls[j].blob)

\* An extension of length 1 over a digest child was written, at a non-empty
\* path, without a cleaner call.
C10_WitnessShortExt ==
    /\ options.Cleaner
    /\ \E k \in WriterIdx :
          /\ isExtBlob(calls[k].blob) /\ extChildIsDigest(calls[k].blob)
          /\ Len(extPath(calls[k].blob)) = 1 /\ calls[k].path # <<>>
          /\ CleanedBefore(k) = <<>>

\* An extension with a path of length two or more over an inline child was
\* written (it is the root) and no cleaner call was made.
C10_WitnessInline ==
    /\ options.Cleaner
    /\ \E j \in WriterIdx :
          /\ isExtBlob(calls[j].blob) /\ ~extChildIsDigest(calls[j].blob)
          /\ Len(extPath(calls[j].blob)) >= 2
    /\ CleanerIdx = {}

(***************************************************************************)
(* C11.  The empty trie.                                                   *)
(***************************************************************************)
\* C11: Hash() on a trie with no Update returns the empty-root constant, the
\* root becomes a hashed node, and no writer or cleaner call is made, with or
\* without a writer configured.
C11_EmptyTrie ==
    (ret.op = "Hash" /\ updates = <<>>) =>
        /\ ret.hash = emptyRoot
        /\ root.typ = hashedNode /\ root.val = emptyRoot
        /\ calls = <<>> /\ gauge = 0

\* An empty trie with a writer and a cleaner was hashed.
C11_Witness ==
    /\ ret.op = "Hash" /\ updates = <<>>
    /\ options.Writer /\ options.Cleaner
    /\ ~options.SkipLeftBoundary /\ ~options.SkipRightBoundary
    /\ root.typ = hashedNode

(***************************************************************************)
(* C12.  Hash() is idempotent.                                             *)
(***************************************************************************)
\* C12: a Hash() that follows a Hash() with no Update in between returns the
\* same digest, makes no writer or cleaner call and changes no trie state.
C12_HashTwice ==
    [][(ret.op = "Hash" /\ ret'.op = "Hash") =>
           /\ ret'.hash = ret.hash
           /\ calls' = calls /\ gauge' = gauge /\ finals' = finals
           /\ root' = root /\ first' = first /\ last' = last /\ options' = options]_vars

\* Hash was called twice in a row on a trie of three keys that wrote nodes.
C12_Witness ==
    /\ ret.op = "Hash" /\ ret.again
    /\ Alive /\ Len(updates) = 3
    /\ Cardinality(WriterIdx) >= 3 /\ CleanerIdx # {}

(***************************************************************************)
(* C13.  Hash() finalizes the right frontier.                              *)
(***************************************************************************)
\* The finalizations logged during Hash().
HashFinals == {i \in 1..Len(finals) : finals[i].at.op = "Hash"}

\* The nodes of the final trie on the path from the root to the last key.
Frontier == {n \in RefNodes(Pairs) : HasPrefix(last, n.path)}

\* C13: after Hash() on a trie built from in-order Updates the root is a hashed
\* node with a 32-byte value, no children and an empty key, so no node that is
\* not hashed remains; the nodes finalized during the call are the nodes of
\* the right frontier, deepest first, and each of them whose encoding is not
\* kept inline went through the emission rule (and, with a writer and no
\* boundary flag, was written during the call, in the same order).
C13_FrontierFinalized ==
    (ret.op = "Hash" /\ Alive /\ StrictlyIncreasing) =>
        /\ root.typ = hashedNode /\ Len(root.val) = 32
        /\ root.children = NoChildren /\ root.key = <<>>
        /\ {[path |-> finals[i].path, blob |-> finals[i].blob] : i \in HashFinals} = Frontier
        /\ Cardinality(HashFinals) = Cardinality(Frontier)
        /\ \A i, j \in HashFinals :
               ProperPrefix(finals[i].path, finals[j].path) => j < i
        /\ \A i \in HashFinals :
               /\ finals[i].sink = ~(Len(finals[i].blob) < 32 /\ finals[i].path # <<>>)
               /\ (finals[i].sink /\ options.Writer
                      /\ ~options.SkipLeftBoundary /\ ~options.SkipRightBoundary) =>
                      \E c \in WriterIdx : /\ calls[c].at.op = "Hash"
                                            /\ calls[c].path = finals[i].path
                                            /\ calls[c].blob = finals[i].blob
        /\ \A c, d \in WriterIdx :
               (calls[c].at.op = "Hash" /\ calls[d].at.op = "Hash"
                  /\ ProperPrefix(calls[c].path, calls[d].path)) => d < c

\* Hash finalized a frontier of four nodes, one of them inline, and wrote
\* three of them.
C13_Witness ==
    /\ ret.op = "Hash" /\ Alive /\ StrictlyIncreasing
    /\ Cardinality(HashFinals) >= 4
    /\ \E i \in HashFinals : ~finals[i].sink
    /\ Cardinality({c \in WriterIdx : calls[c].at.op = "Hash"}) >= 3

(***************************************************************************)
(* C14.  Commit() is Hash().                                               *)
(***************************************************************************)
\* C14: every Commit() step is a Hash() step: from the same state it returns
\* the same digest, makes the same writer and cleaner calls and leaves the
\* trie in the same state.
C14_CommitIsHash ==
    [][Commit =>
           LET r == hash(Env(first, last, [op |-> "Hash", n |-> Len(updates)]), root, <<>>) IN
           /\ ret'.hash = BytesToHash(r.st.val)
           /\ calls' = r.t.calls /\ gauge' = r.t.gauge
           /\ root' = r.st /\ first' = first /\ last' = last /\ options' = options]_vars

\* Commit finalized a trie of three keys and wrote its frontier.
C14_Witness ==
    /\ ret.op = "Hash" /\ ~ret.again /\ Alive /\ Len(updates) = 3
    /\ root.typ = hashedNode
    /\ \E c \in WriterIdx : calls[c].at.op = "Hash" /\ calls[c].path # <<>>

(***************************************************************************)
(* Update calls that fail.                                                 *)
(***************************************************************************)
\* The nibble path of a key, without the terminator.
Nibbles(key) == SubSeq(keybytesToHex(key), 1, 2 * Len(key))

\* The node the descent of an insert stops at, what is left of the key there
\* and the path of that node.
RECURSIVE Descent(_, _, _)
Descent(st, key, path) ==
    IF st.typ = branchNode /\ key # <<>> /\ st.children[key[1] + 1] # NilNode
    THEN Descent(st.children[key[1] + 1], Tail(key), Append(path, key[1]))
    ELSE IF st.typ = extNode /\ HasPrefix(key, st.key)
    THEN Descent(st.children[1], SubSeq(key, Len(st.key) + 1, Len(key)), path \o st.key)
    ELSE [node |-> st, rem |-> key, path |-> path]

\* The callbacks made during the n-th Update of this lifetime.
CallsDuring(n) == {c \in 1..Len(calls) : calls[c].at = [op |-> "Update", n |-> n]}

\* The Updates before the n-th were made in strictly increasing key order.
InOrderBefore(n) ==
    \A i \in 1..(n - 2) : BytesLess(updates[i].key, updates[i + 1].key)

\* This step is an Update call.
Updated == Len(updates') = Len(updates) + 1

(***************************************************************************)
(* C15.  A duplicate of the last key.                                      *)
(***************************************************************************)
\* C15: an Update (of a non-empty value, on a trie that was not hashed) with
\* the key of the Update before it, which inserted that key, fails with
\* "Trying to insert into existing key", and no writer call is made during it.
C15_DuplicateRejected ==
    \A n \in 2..Len(updates) :
        (/\ updates[n].key = updates[n - 1].key
         /\ updates[n - 1].err = ""
         /\ updates[n].value # <<>> /\ ~updates[n].sealed) =>
            /\ updates[n].err = ErrInsertExisting
            /\ (n = Len(updates) /\ ret.op = "Update") => ret.panic = ErrInsertExisting
            /\ CallsDuring(n) = {}

\* The third Update repeated the key of the second one, on a trie with a
\* writer that had written a node before.
C15_Witness ==
    /\ Len(updates) = 3 /\ ret.op = "Update"
    /\ updates[3].key = updates[2].key /\ updates[3].value # <<>>
    /\ updates[3].err = ErrInsertExisting
    /\ options.Writer /\ WriterIdx # {}

(***************************************************************************)
(* C16.  When "Trying to insert into existing key" is raised.              *)
(***************************************************************************)
\* C16 as stated: an Update that calls insert fails with "Trying to insert
\* into existing key" exactly when what is left of its key equals the key of
\* the leaf its descent reaches, and then its key was inserted before.
C16_OnlyForPresentKey ==
    [][(Updated /\ updates'[Len(updates')].value # <<>>) =>
           LET u == updates'[Len(updates')]
               d == Descent(root, Nibbles(u.key), <<>>)
           IN  /\ (u.err = ErrInsertExisting) <=> (d.node.typ = leafNode /\ d.rem = d.node.key)
               /\ (u.err = ErrInsertExisting) =>
                      \E m \in 1..Len(updates) :
                          updates[m].err = "" /\ updates[m].key = u.key]_vars

\* C16 amended: an Update that calls insert fails with "Trying to insert into
\* existing key" exactly when the key of the leaf its descent reaches is a
\* prefix of what is left of its key; its key then equals or extends a key
\* that was inserted before, and it was inserted before itself when no
\* inserted key is a proper prefix of it.
C16_PresentOrExtendingKey ==
    [][(Updated /\ updates'[Len(updates')].value # <<>>) =>
           LET u == updates'[Len(updates')]
               d == Descent(root, Nibbles(u.key), <<>>)
               before == {updates[m].key : m \in {i \in 1..Len(updates) : updates[i].err = ""}}
           IN  /\ (u.err = ErrInsertExisting) <=>
                      (d.node.typ = leafNode /\ HasPrefix(d.rem, d.node.key))
               /\ (u.err = ErrInsertExisting) =>
                      /\ \E k \in before : HasPrefix(u.key, k)
                      /\ (\A k \in before : ~ProperPrefix(k, u.key)) => u.key \in before]_vars

\* After two keys inserted out of order, an Update failed on the key that
\* was inserted last; in another state one failed on a key that extends an
\* inserted key.
C16_Witness ==
    /\ Len(updates) = 3 /\ ret.op = "Update"
    /\ updates[3].err = ErrInsertExisting
    /\ BytesLess(updates[2].key, updates[1].key)
    /\ updates[3].key \in {updates[1].key, updates[2].key}

C16_WitnessExtends ==
    /\ Len(updates) = 2 /\ ret.op = "Update"
    /\ updates[2].err = ErrInsertExisting
    /\ ProperPrefix(updates[1].key, updates[2].key)

(***************************************************************************)
(* C17.  An empty value.                                                   *)
(***************************************************************************)
\* C17: an Update with an empty value fails with "deletion not supported" and
\* leaves the node tree, first and last as they were; no writer or cleaner
\* call is made.
C17_DeletionLeavesTrie ==
    [][(Updated /\ updates'[Len(updates')].value = <<>>) =>
           /\ updates'[Len(updates')].err = ErrDeletion
           /\ ret'.panic = ErrDeletion
           /\ root' = root /\ first' = first /\ last' = last
           /\ calls' = calls /\ gauge' = gauge /\ finals' = finals
           /\ options' = options]_vars

\* An Update with an empty value and a new, larger key failed on a trie that
\* holds two keys.
C17_Witness ==
    /\ Len(updates) = 3 /\ ret.op = "Update"
    /\ updates[3].value = <<>> /\ updates[3].err = ErrDeletion
    /\ BytesLess(updates[2].key, updates[3].key)
    /\ last = Nibbles(updates[2].key) /\ first = Nibbles(updates[1].key)
    /\ root.typ \in {branchNode, extNode}

(***************************************************************************)
(* C18.  An insert that reaches a hashed node.                             *)
(***************************************************************************)
\* C18: an Update whose descent reaches a hashed node fails with "trying to
\* insert into hash"; after in-order Updates, an Update whose key has the
\* path of a finalized node as a prefix fails so, and the node tree is left
\* as it was and nothing is written.
C18_HashedNodeRejects ==
    [][(Updated /\ updates'[Len(updates')].value # <<>>) =>
           LET u == updates'[Len(updates')]
               d == Descent(root, Nibbles(u.key), <<>>)
           IN  /\ (d.node.typ = hashedNode) <=> (u.err = ErrInsertHashed)
               /\ (d.node.typ = hashedNode) => ret'.panic = ErrInsertHashed
               /\ (/\ InOrderBefore(Len(updates) + 1)
                   /\ \E i \in 1..Len(finals) : HasPrefix(Nibbles(u.key), finals[i].path)) =>
                      /\ u.err = ErrInsertHashed
                      /\ root' = root
                      /\ calls' = calls /\ finals' = finals /\ gauge' = gauge]_vars

\* After two in-order Updates that finalized the first key's leaf, an Update
\* with a key below that leaf's path failed on the hashed node.
C18_Witness ==
    /\ Len(updates) = 3 /\ ret.op = "Update"
    /\ InOrderBefore(3) /\ ~updates[3].sealed
    /\ updates[3].err = ErrInsertHashed
    /\ updates[3].key # updates[1].key
    /\ \E i \in 1..Len(finals) :
          finals[i].path # <<>> /\ HasPrefix(Nibbles(updates[3].key), finals[i].path)

(***************************************************************************)
(* C19.  A failing Update and the sink.                                    *)
(***************************************************************************)
\* The three kinds of failure of an Update.
Failures == {ErrInsertExisting, ErrInsertHashed, ErrDeletion}

\* C19 as stated: after any sequence of Updates that returned, no writer and
\* no cleaner call is made during an Update that fails.
C19_NoCallsWhenFailing ==
    \A n \in 1..Len(updates) :
        updates[n].err \in Failures => CallsDuring(n) = {}

\* C19 amended: the same after Updates that returned and were made in
\* strictly increasing key order.
C19_NoCallsAfterInOrder ==
    \A n \in 1..Len(updates) :
        (updates[n].err \in Failures /\ InOrderBefore(n)) =>
            /\ CallsDuring(n) = {}
            /\ \A i \in 1..Len(finals) : finals[i].at # [op |-> "Update", n |-> n]

\* After two in-order Updates that wrote a node, a third Update failed on a
\* key that was not inserted in order.
C19_Witness ==
    /\ Len(updates) = 3 /\ ret.op = "Update"
    /\ InOrderBefore(3) /\ ~updates[3].sealed
    /\ updates[3].err \in {ErrInsertExisting, ErrInsertHashed}
    /\ options.Writer /\ options.Cleaner
    /\ CallsDuring(2) # {} /\ CallsDuring(3) = {}

(***************************************************************************)
(* C20.  How a failure leaves Update.                                      *)
(***************************************************************************)
\* The descent of an insert of key into st ends at a leaf that holds value
\* under what is left of the key.
Holds(st, key, value) ==
    LET d == Descent(st, Nibbles(key), <<>>) IN
    d.node.typ = leafNode /\ d.node.key = d.rem /\ d.node.val = value

\* C20 as stated: an Update that fails returns, and the error it returns is
\* the failure; an Update that returns no error has inserted its pair.
C20_ErrorsReturned ==
    (ret.op = "Update") =>
        LET u == updates[Len(updates)] IN
        /\ u.err \in Failures => (ret.panic = "" /\ ret.err = u.err)
        /\ (ret.panic = "" /\ ret.err = "") => Holds(root, u.key, u.value)

\* C20 amended: an Update never returns an error; an Update that is given an
\* empty value, reaches a hashed node or reaches a leaf whose key is a prefix
\* of what is left of its key ends in a panic that names the failure, and an
\* Update that returns has inserted its pair.
C20_FailuresPanic ==
    [][Updated =>
           LET u == updates'[Len(updates')]
               d == Descent(root, Nibbles(u.key), <<>>)
           IN  /\ ret'.op = "Update" /\ ret'.err = ""
               /\ IF u.value = <<>> THEN ret'.panic = ErrDeletion
                  ELSE IF d.node.typ = hashedNode THEN ret'.panic = ErrInsertHashed
                  ELSE IF d.node.typ = leafNode /\ HasPrefix(d.rem, d.node.key)
                  THEN ret'.panic = ErrInsertExisting
                  ELSE ret'.panic \notin Failures
               /\ ret'.panic = "" => Holds(root', u.key, u.value)]_vars

\* A third Update returned after it split an extension; in other states an
\* Update ended in each of the three panics.
C20_Witness ==
    /\ Len(updates) = 3 /\ ret.op = "Update" /\ ret.panic = ""
    /\ root.typ = branchNode
    /\ Holds(root, updates[3].key, updates[3].value)
    /\ \E i \in 1..Len(finals) : finals[i].typ = extNode /\ finals[i].at.op = "Update"

C20_WitnessPanics ==
    /\ ret.op = "Update" /\ ret.panic = ErrInsertHashed /\ ret.err = ""
    /\ Len(updates) = 3 /\ ~updates[3].sealed

(***************************************************************************)
(* C21.  Keys that arrive out of order.                                    *)
(***************************************************************************)
\* C21: an Update (of a non-empty value) with a key strictly less than a key
\* inserted before returns without an error or fails with "trying to insert
\* into hash" or "Trying to insert into existing key", and in no other way.
C21_OnlyKnownFailures ==
    \A n \in 1..Len(updates) :
        (/\ updates[n].value # <<>>
         /\ \E m \in 1..(n - 1) :
                updates[m].err = "" /\ BytesLess(updates[n].key, updates[m].key)) =>
            updates[n].err \in {"", ErrInsertHashed, ErrInsertExisting}

(***************************************************************************)
(* C22.  Reset() gives a fresh trie with default options.                  *)
(***************************************************************************)
\* C22: after Reset() the options are the default ones (no writer, no
\* cleaner, both skip flags false), so no writer or cleaner call is made by
\* any later Update or Hash; Reset leaves an empty root and nil first and
\* last, which stay nil until a value is inserted, and Hash() before any
\* Update returns the empty root.
C22_ResetIsFresh ==
    reused =>
        /\ options = NewStackTrieOptions
        /\ ~options.Writer /\ ~options.Cleaner
        /\ ~options.SkipLeftBoundary /\ ~options.SkipRightBoundary
        /\ calls = <<>> /\ gauge = 0
        /\ ret.op = "Reset" => root = poolGet
        /\ updates = <<>> => first = NilSlice /\ last = NilSlice
        /\ (ret.op = "Hash" /\ updates = <<>>) => ret.hash = emptyRoot

\* After a Reset three long values were inserted and the trie was hashed.
C22_Witness ==
    /\ reused /\ ret.op = "Hash" /\ Alive
    /\ Len(updates) = 3 /\ \A i \in 1..3 : updates[i].value = Long
    /\ Cardinality({i \in 1..Len(finals) : finals[i].sink}) >= 4

\* Hash was called right after Reset.
C22_WitnessEmpty ==
    reused /\ ret.op = "Hash" /\ updates = <<>> /\ ret.hash = emptyRoot

(***************************************************************************)
(* C23.  Reset() and the node pool.                                        *)
(***************************************************************************)
\* C23 as stated: when Reset returns, every node that was reachable from the
\* root before it has been put into the pool, cleared, by Reset.
C23_ResetReleasesAll ==
    [][ret'.op = "Reset" =>
           \A x \in Reachable(root, <<>>) :
               \E i \in 1..Len(pool') :
                   /\ pool'[i].at.op = "Reset"
                   /\ pool'[i].path = x.path
                   /\ pool'[i].node = poolGet]_vars

\* C23 amended: Reset puts no node into the pool; the old root and all the
\* nodes it holds are dropped, and the new root is a cleared node.
C23_ResetDropsNodes ==
    [][ret'.op = "Reset" =>
           /\ \A i \in 1..Len(pool') : pool'[i].at.op # "Reset"
           /\ pool' = <<>>
           /\ root' = poolGet
           /\ ret'.dropped = Cardinality(Reachable(root, <<>>))
           /\ ret'.dropped >= 1]_vars

\* Reset dropped a trie of at least four nodes.
C23_Witness ==
    /\ ret.op = "Reset" /\ ret.dropped >= 4
    /\ pool = <<>> /\ root = poolGet

(***************************************************************************)
(* C24.  The nodes that are not hashed form the right frontier.            *)
(***************************************************************************)
\* The nodes reachable from the root, and those of them that are not hashed.
Nodes == Reachable(root, <<>>)
LiveNodes == {x \in Nodes : x.node.typ # hashedNode}

\* The occupied slots of a node (0..15).
Occupied(n) == {i \in 0..15 : n.children[i + 1] # NilNode}

\* The greatest nibble length of a key passed to Update (0 when there is none).
MaxNibbles ==
    IF updates = <<>> THEN 0
    ELSE CHOOSE m \in {2 * Len(updates[i].key) : i \in 1..Len(updates)} :
             \A i \in 1..Len(updates) : 2 * Len(updates[i].key) <= m

\* C24: in every state of in-order use the nodes that are not hashed lie on
\* one path from the root (the path of one is a prefix of the path of the
\* other, and the root is among them unless it is hashed); in every branch
\* every occupied slot below the highest occupied one holds a hashed child;
\* and there are at most as many such nodes as the longest key has nibbles,
\* plus one.
C24_SingleLivePath ==
    StrictlyIncreasing =>
        /\ \A x, y \in LiveNodes : HasPrefix(x.path, y.path) \/ HasPrefix(y.path, x.path)
        /\ Cardinality({x.path : x \in LiveNodes}) = Cardinality(LiveNodes)
        /\ root.typ # hashedNode => [path |-> <<>>, node |-> root] \in LiveNodes
        /\ \A x \in Nodes :
               x.node.typ = branchNode =>
                   \A i, j \in Occupied(x.node) :
                       i < j => x.node.children[i + 1].typ = hashedNode
        /\ Cardinality(LiveNodes) <= MaxNibbles + 1

\* Three in-order keys of four nibbles left a path of five nodes that are
\* not hashed: extension, branch, extension, branch and leaf.
C24_Witness ==
    /\ StrictlyIncreasing /\ Alive /\ Len(updates) = 3
    /\ MaxNibbles = 4 /\ Cardinality(LiveNodes) = 5
    /\ \E x \in Nodes : x.node.typ = branchNode /\ x.path # <<>>
                            /\ \E i \in Occupied(x.node) : x.node.children[i + 1].typ = hashedNode

(***************************************************************************)
(* C25.  The invariants of the node kinds.                                 *)
(***************************************************************************)
\* C25: for every node reachable from the root: an extension has a key of
\* length at least 1 and exactly one child, in children[0]; a branch has an
\* empty key, no value and at least two occupied slots; a leaf has a value
\* and no children; a hashed node has an empty key, no children and a value
\* of at most 32 bytes.
C25_NodeKinds ==
    \A x \in Nodes :
        LET n == x.node IN
        /\ n.typ = extNode =>
               Len(n.key) >= 1 /\ Occupied(n) = {0}
        /\ n.typ = branchNode =>
               n.key = <<>> /\ n.val = <<>> /\ Cardinality(Occupied(n)) >= 2
        /\ n.typ = leafNode =>
               n.val # <<>> /\ Occupied(n) = {}
        /\ n.typ = hashedNode =>
               n.key = <<>> /\ Occupied(n) = {} /\ Len(n.val) <= 32

\* A trie holds an extension, a branch, a leaf, a hashed node with a digest
\* and one with an inline encoding.
C25_Witness ==
    /\ \E x \in Nodes : x.node.typ = extNode /\ Len(x.node.key) >= 2
    /\ \E x \in Nodes : x.node.typ = branchNode /\ Cardinality(Occupied(x.node)) >= 3
    /\ \E x \in Nodes : x.node.typ = leafNode
    /\ \E x \in Nodes : x.node.typ = hashedNode /\ Len(x.node.val) = 32
    /\ \E x \in Nodes : x.node.typ = hashedNode /\ Len(x.node.val) < 32

(***************************************************************************)
(* C26.  What an Update commits.                                           *)
(***************************************************************************)
\* C26: the path of a node written during an Update is not a prefix of the
\* nibble path of that Update's key; the nodes on the path from the root to
\* the key inserted last are written by Hash() only.
C26_UpdateCommitsOffPath ==
    StrictlyIncreasing =>
        /\ \A c \in WriterIdx :
               calls[c].at.op = "Update" =>
                   ~HasPrefix(Nibbles(updates[calls[c].at.n].key), calls[c].path)
        /\ \A c \in WriterIdx :
               (updates # <<>> /\ HasPrefix(Nibbles(updates[Len(updates)].key), calls[c].path))
                   => calls[c].at.op = "Hash"

\* The third Update wrote two nodes, the second one wrote one, and Hash wrote
\* the path to the third key.
C26_Witness ==
    /\ StrictlyIncreasing /\ Alive /\ Len(updates) = 3 /\ ret.op = "Hash"
    /\ Cardinality({c \in WriterIdx : calls[c].at = [op |-> "Update", n |-> 3]}) >= 2
    /\ \E c \in WriterIdx : calls[c].at = [op |-> "Update", n |-> 2]
    /\ Cardinality({c \in WriterIdx : calls[c].at.op = "Hash"}) >= 2

(***************************************************************************)
(* C27.  The node pool.                                                    *)
(***************************************************************************)
\* C27: every node was cleared when it was put into the pool (kind empty,
\* empty key, no value, no children), so the pool hands out cleared nodes
\* only; no node was put twice, and no node that is reachable from the root
\* is one that was put into the pool (a node keeps its path while it is in
\* the trie).
C27_PoolSafety ==
    /\ \A i \in 1..Len(pool) :
           /\ pool[i].node = poolGet
           /\ pool[i].node.typ = emptyNode /\ pool[i].node.key = <<>>
           /\ pool[i].node.val = <<>> /\ pool[i].node.children = NoChildren
           /\ \A x \in Nodes : x.path # pool[i].path
    /\ Cardinality({pool[i].path : i \in 1..Len(pool)}) = Len(pool)

\* An Update released a node while three nodes of the trie were not hashed.
C27_Witness ==
    /\ ret.op = "Update" /\ Alive
    /\ \E i \in 1..Len(pool) : pool[i].at.op = "Update" /\ Len(pool[i].path) >= 2
    /\ Cardinality(LiveNodes) >= 3

\* Hash released the children of the frontier: four nodes or more in all.
C27_WitnessHash ==
    /\ ret.op = "Hash" /\ Len(pool) >= 4 /\ Nodes = {[path |-> <<>>, node |-> root]}

(***************************************************************************)
(* C28.  first and last.                                                   *)
(***************************************************************************)
\* The Updates of this lifetime that passed the check of the value.
Inserting == {i \in 1..Len(updates) : updates[i].value # <<>>}

\* C28: before the first Update that carries a value first and last are nil;
\* from then on first is the nibble path (without terminator) of the key of
\* that Update, and last is the nibble path of the key of the latest Update
\* that carried a value, whether or not its insert failed.
C28_BoundaryTracking ==
    IF Inserting = {} THEN first = NilSlice /\ last = NilSlice
    ELSE /\ first = Nibbles(updates[CHOOSE i \in Inserting : \A j \in Inserting : i <= j].key)
         /\ last = Nibbles(updates[CHOOSE i \in Inserting : \A j \in Inserting : j <= i].key)

\* Three keys were inserted out of order and the trie was hashed: first is
\* the first key and last the third.
C28_Witness ==
    /\ Len(updates) = 3 /\ Alive /\ ret.op = "Hash"
    /\ BytesLess(updates[3].key, updates[1].key)
    /\ updates[2].key # <<>>
    /\ first = Nibbles(updates[1].key) /\ last = Nibbles(updates[3].key)
    /\ first # last /\ last # Nibbles(updates[2].key)

(***************************************************************************)
(* C29.  No writer.                                                        *)
(***************************************************************************)
\* C29: without a writer no writer and no cleaner call is made and the
\* boundary counter stays 0, also with a cleaner, boundary flags and a
\* counter configured; Hash() returns the reference root all the same.
C29_NoWriterNoEmission ==
    ~options.Writer =>
        /\ calls = <<>> /\ gauge = 0
        /\ (Built /\ StrictlyIncreasing /\ Alive) => ret.hash = RefRoot(Pairs)

\* A trie with a cleaner, both flags and a counter but no writer hashed an
\* extension over two nibbles or more whose child is stored by digest.
C29_Witness ==
    /\ ~options.Writer /\ options.Cleaner /\ options.boundaryGauge
    /\ options.SkipLeftBoundary /\ options.SkipRightBoundary
    /\ Built /\ StrictlyIncreasing /\ Alive /\ Len(updates) = 3
    /\ ret.hash = RefRoot(Pairs)
    /\ \E i \in 1..Len(finals) :
          /\ finals[i].sink /\ isExtBlob(finals[i].blob)
          /\ extChildIsDigest(finals[i].blob) /\ Len(extPath(finals[i].blob)) >= 2

(***************************************************************************)
(* C30.  The boundary counter.                                             *)
(***************************************************************************)
\* The finalization f went through the emission rule and met a boundary flag:
\* its path is a prefix of first, or of last as it was during the operation
\* that finalized it.
Skipped(f) ==
    /\ f.sink /\ updates # <<>>
    /\ \/ options.SkipLeftBoundary /\ HasPrefix(Nibbles(updates[1].key), f.path)
       \/ options.SkipRightBoundary /\ HasPrefix(Nibbles(updates[f.at.n].key), f.path)

\* C30: with a writer and a counter, the counter is the number of finalized
\* nodes that are not inline and were skipped for a boundary flag, each
\* counted once; the writer calls and the counter add up to the number of
\* finalized nodes that are not inline.
C30_CounterCountsSkipped ==
    (options.Writer /\ options.boundaryGauge /\ StrictlyIncreasing) =>
        /\ gauge = Cardinality({i \in 1..Len(finals) : Skipped(finals[i])})
        /\ Cardinality(WriterIdx) + gauge = Cardinality({i \in 1..Len(finals) : finals[i].sink})
        /\ \A i \in 1..Len(finals) :
               Skipped(finals[i]) => \A c \in WriterIdx : calls[c].path # finals[i].path

\* With both flags, three nodes or more were skipped (the root lies on both
\* boundaries), one node was written and one was kept inline.
C30_Witness ==
    /\ options.Writer /\ options.boundaryGauge
    /\ options.SkipLeftBoundary /\ options.SkipRightBoundary
    /\ ret.op = "Hash" /\ Alive /\ StrictlyIncreasing
    /\ gauge >= 3 /\ WriterIdx # {}
    /\ \E i \in 1..Len(finals) : finals[i].path = <<>> /\ Skipped(finals[i])
    /\ \E i \in 1..Len(finals) : ~finals[i].sink

(***************************************************************************)
(* The cases of insert(), seen at the node the descent reaches.            *)
(***************************************************************************)
\* The nodes an insert of key visits from st (at path) on, each with what is
\* left of the key when the insert reaches it.
RECURSIVE Visited(_, _, _)
Visited(st, key, path) ==
    {[node |-> st, rem |-> key, path |-> path]} \cup
        (IF st.typ = branchNode /\ key # <<>> /\ st.children[key[1] + 1] # NilNode
         THEN Visited(st.children[key[1] + 1], Tail(key), Append(path, key[1]))
         ELSE IF st.typ = extNode /\ HasPrefix(key, st.key)
         THEN Visited(st.children[1], SubSeq(key, Len(st.key) + 1, Len(key)), path \o st.key)
         ELSE {})

\* The node at the path target below st (which is at cur), or NilNode.
RECURSIVE NodeAt(_, _, _)
NodeAt(st, cur, target) ==
    IF st = NilNode \/ cur = target THEN st
    ELSE IF Len(cur) >= Len(target) THEN NilNode
    ELSE IF st.typ = extNode THEN NodeAt(st.children[1], cur \o st.key, target)
    ELSE NodeAt(st.children[target[Len(cur) + 1] + 1], Append(cur, target[Len(cur) + 1]), target)

\* This step is an Update that keeps the caller's contract and reaches insert().
InsertsInOrder ==
    /\ Updated
    /\ InOrderBefore(Len(updates'))
    /\ InOrder(updates'[Len(updates')].key)
    /\ updates'[Len(updates')].value # <<>>

\* The nibbles and the value this Update step inserts.
StepKey == Nibbles(updates'[Len(updates')].key)
StepValue == updates'[Len(updates')].value

\* The finalizations made during this step.
StepFinals == {finals'[f] : f \in (Len(finals) + 1)..Len(finals')}

(***************************************************************************)
(* C31.  The branch case of insert.                                        *)
(***************************************************************************)
\* C31: when an in-order Update reaches a branch with next nibble i, then
\* after the Update the nearest occupied slot below i holds a hashed node and
\* the other slots below and above are as before; if slot i was empty it
\* holds a leaf with the nibbles after i and the value, and the sibling was
\* finalized during this Update and nothing outside its subtree was;
\* otherwise the sibling is as it was and every finalization of this Update
\* lies below slot i.
C31_BranchInsert ==
    [][InsertsInOrder =>
        \A b \in {v \in Visited(root, StepKey, <<>>) :
                       v.node.typ = branchNode /\ v.rem # <<>>} :
            LET i == b.rem[1]
                e == elderSibling(b.node, i - 1)
                after == NodeAt(root', <<>>, b.path)
            IN  /\ after.typ = branchNode
                /\ e >= 0 => after.children[e + 1].typ = hashedNode
                /\ \A j \in (0..15) \ {i, e} : after.children[j + 1] = b.node.children[j + 1]
                /\ IF b.node.children[i + 1] = NilNode
                   THEN /\ after.children[i + 1] = newLeaf(Tail(b.rem), StepValue)
                        /\ e >= 0 => \E f \in StepFinals : f.path = Append(b.path, e)
                        /\ \A f \in StepFinals : HasPrefix(f.path, Append(b.path, e))
                   ELSE /\ e >= 0 => after.children[e + 1] = b.node.children[e + 1]
                        /\ \A f \in StepFinals : HasPrefix(f.path, Append(b.path, i))
    ]_vars

\* The third Update put its key into a new slot of a branch below the root
\* and hashed the leaf in the slot before it.
C31_Witness ==
    /\ ret.op = "Update" /\ Alive /\ StrictlyIncreasing /\ Len(updates) = 3
    /\ \E x \in LiveNodes :
          /\ x.node.typ = branchNode /\ Len(x.path) >= 1
          /\ Cardinality(Occupied(x.node)) = 3
          /\ \E i \in Occupied(x.node) :
                /\ x.node.children[i + 1] = newLeaf(SubSeq(last, Len(x.path) + 2, Len(last)),
                                                    updates[3].value)
                /\ \E f \in 1..Len(finals) :
                      /\ finals[f].at = [op |-> "Update", n |-> 3]
                      /\ finals[f].path = Append(x.path, elderSibling(x.node, i - 1))

\* The third Update went through a branch into an occupied slot and split
\* the leaf it found there.
C31_WitnessRecurse ==
    /\ ret.op = "Update" /\ Alive /\ StrictlyIncreasing /\ Len(updates) = 3
    /\ \E x \in LiveNodes :
          /\ x.node.typ = branchNode /\ Cardinality(Occupied(x.node)) = 2
          /\ \E i \in Occupied(x.node) :
                /\ x.node.children[i + 1].typ = branchNode
                /\ \E f \in 1..Len(finals) :
                      /\ finals[f].at = [op |-> "Update", n |-> 3]
                      /\ ProperPrefix(Append(x.path, i), finals[f].path)
                /\ \E j \in Occupied(x.node) :
                      /\ j < i
                      /\ \E f \in 1..Len(finals) :
                            /\ finals[f].at = [op |-> "Update", n |-> 2]
                            /\ finals[f].path = Append(x.path, j)

(***************************************************************************)
(* C32.  The leaf split.                                                   *)
(***************************************************************************)
\* This step is an Update whose value is not empty: it reaches insert().
Inserts == Updated /\ StepValue # <<>>

\* C32: when an Update reaches a leaf with key L and the rest of its key
\* first differs from L at index d < len(L), then after the Update the node
\* is a branch (d = 0) or an extension with key L[..d] over a new branch
\* (d > 0); that branch has two occupied slots: slot L[d] holds a hashed node,
\* the leaf of the original value with key L[d+1..], finalized during this
\* Update at path ++ L[..d+1], and slot rem[d] holds a leaf that is not
\* hashed, with key rem[d+1..] and the new value.
C32_LeafSplit ==
    [][Inserts =>
        \A v \in {w \in Visited(root, StepKey, <<>>) : w.node.typ = leafNode} :
            LET L == v.node.key
                d == getDiffIndex(v.node, v.rem)
                after == NodeAt(root', <<>>, v.path)
                br == IF d = 0 THEN after ELSE after.children[1]
            IN  (0 <= d /\ d < Len(L)) =>
                    /\ after.val = <<>>
                    /\ IF d = 0 THEN after.typ = branchNode /\ after.key = <<>>
                       ELSE /\ after.typ = extNode /\ after.key = SubSeq(L, 1, d)
                            /\ Occupied(after) = {0}
                    /\ br.typ = branchNode /\ br.key = <<>> /\ br.val = <<>>
                    /\ Occupied(br) = {L[d + 1], v.rem[d + 1]}
                    /\ L[d + 1] # v.rem[d + 1]
                    /\ br.children[L[d + 1] + 1].typ = hashedNode
                    /\ br.children[L[d + 1] + 1].key = <<>>
                    /\ Occupied(br.children[L[d + 1] + 1]) = {}
                    /\ Cardinality({f \in StepFinals :
                                       f.path = v.path \o SubSeq(L, 1, d + 1)}) = 1
                    /\ \E f \in StepFinals :
                          /\ f.path = v.path \o SubSeq(L, 1, d + 1)
                          /\ f.typ = leafNode
                          /\ f.blob = encodeShort(
                                 hexToCompactInPlace(Append(SubSeq(L, d + 2, Len(L)), 16)),
                                 valueNode(v.node.val))
                          /\ f.val = br.children[L[d + 1] + 1].val
                    /\ br.children[v.rem[d + 1] + 1] =
                           newLeaf(SubSeq(v.rem, d + 2, Len(v.rem)), StepValue)
    ]_vars

\* The second Update split the root leaf into an extension over a branch
\* (d > 0), and the third split the leaf of the second key below that branch
\* into a branch (d = 0).
C32_Witness ==
    /\ ret.op = "Update" /\ Alive /\ Len(updates) = 3
    /\ root.typ = extNode
    /\ \E i, j \in 0..15 :
          /\ i < j
          /\ Occupied(root.children[1]) = {i, j}
          /\ root.children[1].children[i + 1].typ = hashedNode
          /\ root.children[1].children[j + 1].typ = branchNode
          /\ Cardinality(Occupied(root.children[1].children[j + 1])) = 2
    /\ Cardinality({f \in 1..Len(finals) :
                       finals[f].typ = leafNode /\ finals[f].at.op = "Update"}) = 2

(***************************************************************************)
(* C33.  The extension split.                                              *)
(***************************************************************************)
\* C33: when an Update reaches an extension with key E and the rest of its
\* key first differs from E at index d < len(E), the preserved tail is
\* finalized during this Update: a new extension with key E[d+1..] over the
\* original child, at path ++ E[..d+1], when d < len(E) - 1, else the original
\* child itself, at path ++ E; in both cases the original child is finalized
\* at path ++ E, and the new leaf is not finalized.  Afterwards the node is a
\* branch (d = 0) or an extension with key E[..d] over a new branch (d > 0);
\* that branch holds the hashed tail at slot E[d] and a leaf that is not
\* hashed, with key rem[d+1..] and the new value, at slot rem[d].  When the
\* key matches all of E the extension keeps its kind, key and single child
\* slot, and nothing at or above path ++ E is finalized.
C33_ExtSplit ==
    [][Inserts =>
        \A v \in {w \in Visited(root, StepKey, <<>>) : w.node.typ = extNode} :
            LET E == v.node.key
                d == getDiffIndex(v.node, v.rem)
                after == NodeAt(root', <<>>, v.path)
                br == IF d = 0 THEN after ELSE after.children[1]
                tailPath == IF d < Len(E) - 1 THEN v.path \o SubSeq(E, 1, d + 1)
                            ELSE v.path \o E
            IN  IF 0 <= d /\ d < Len(E)
                THEN /\ v.node.children[1].typ = branchNode
                     /\ Cardinality({f \in StepFinals : f.path = tailPath}) = 1
                     /\ \E f \in StepFinals :
                           /\ f.path = tailPath
                           /\ f.val = br.children[E[d + 1] + 1].val
                           /\ IF d < Len(E) - 1
                              THEN /\ f.typ = extNode /\ isExtBlob(f.blob)
                                   /\ extPath(f.blob) = SubSeq(E, d + 2, Len(E))
                              ELSE f.typ = branchNode
                     /\ \E f \in StepFinals : f.path = v.path \o E /\ f.typ = branchNode
                     /\ \A f \in StepFinals :
                           ~HasPrefix(f.path, Append(v.path \o SubSeq(E, 1, d), v.rem[d + 1]))
                     /\ IF d = 0 THEN after.typ = branchNode /\ after.key = <<>>
                        ELSE /\ after.typ = extNode /\ after.key = SubSeq(E, 1, d)
                             /\ Occupied(after) = {0}
                     /\ br.typ = branchNode /\ br.key = <<>>
                     /\ Occupied(br) = {E[d + 1], v.rem[d + 1]}
                     /\ E[d + 1] # v.rem[d + 1]
                     /\ br.children[E[d + 1] + 1].typ = hashedNode
                     /\ Occupied(br.children[E[d + 1] + 1]) = {}
                     /\ br.children[v.rem[d + 1] + 1] =
                            newLeaf(SubSeq(v.rem, d + 2, Len(v.rem)), StepValue)
                ELSE d = Len(E) =>
                     /\ after.typ = extNode /\ after.key = E /\ Occupied(after) = {0}
                     /\ after.children[1].typ = branchNode
                     /\ \A f \in StepFinals : ProperPrefix(v.path \o E, f.path)
    ]_vars

\* The third Update split an extension of three nibbles after its first
\* nibble: the tail is an extension of one nibble, finalized with its child.
C33_Witness ==
    /\ ret.op = "Update" /\ Alive /\ Len(updates) = 3
    /\ root.typ = extNode /\ root.children[1].typ = branchNode
    /\ Cardinality(Occupied(root.children[1])) = 2
    /\ \E f, g \in 1..Len(finals) :
          /\ finals[f].at = [op |-> "Update", n |-> 3] /\ finals[f].typ = extNode
          /\ Len(finals[f].path) = Len(root.key) + 1 /\ HasPrefix(finals[f].path, root.key)
          /\ root.children[1].children[finals[f].path[Len(finals[f].path)] + 1].typ = hashedNode
          /\ Len(extPath(finals[f].blob)) = 1
          /\ finals[g].at = [op |-> "Update", n |-> 3] /\ finals[g].typ = branchNode
          /\ finals[g].path = finals[f].path \o extPath(finals[f].blob)

\* The third Update split an extension at its last nibble (the tail is the
\* child itself) and at its first (the node became a branch).
C33_WitnessChild ==
    /\ ret.op = "Update" /\ Alive /\ Len(updates) = 3
    /\ root.typ = branchNode /\ Cardinality(Occupied(root)) = 2
    /\ \E f \in 1..Len(finals) :
          /\ finals[f].at = [op |-> "Update", n |-> 3] /\ finals[f].typ = branchNode
          /\ Len(finals[f].path) = 1 /\ root.children[finals[f].path[1] + 1].typ = hashedNode

\* The third Update matched the whole extension and went on below it.
C33_WitnessMatch ==
    /\ ret.op = "Update" /\ Alive /\ Len(updates) = 3
    /\ root.typ = extNode /\ Len(root.key) = 2
    /\ Cardinality(Occupied(root.children[1])) = 3
    /\ \E f \in 1..Len(finals) :
          /\ finals[f].at = [op |-> "Update", n |-> 2]
          /\ finals[f].path = Append(root.key, 0)

(***************************************************************************)
(* C34.  The work of one operation is bounded.                             *)
(***************************************************************************)
\* The keys of this lifetime, the one of this step included, have one length.
EqualLengthKeys ==
    \A i, j \in 1..Len(updates') : Len(updates'[i].key) = Len(updates'[j].key)

\* C34: on a trie built from keys of one length every operation ends after a
\* bounded number of steps.  An Update calls insert() first on the root with
\* the whole key; every further call is one level down, with a path that
\* grew by the nibbles the key lost, at least one; so there are at most as
\* many calls as the key has nibbles, plus one.  It finalizes no path twice,
\* and it returns when the keys came in order and the trie was not hashed.
\* A Hash finalizes exactly the nodes that were not hashed, each once, and
\* leaves the root hashed.
C34_BoundedWork ==
    [][EqualLengthKeys =>
        /\ Inserts =>
               LET d == updates'[Len(updates')].descent IN
               /\ Len(d) >= 1 /\ Len(d) <= Len(StepKey) + 1
               /\ d[1].path = <<>> /\ d[1].rem = StepKey
               /\ \A j \in 1..(Len(d) - 1) :
                      /\ Len(d[j + 1].rem) < Len(d[j].rem)
                      /\ d[j + 1].path \o d[j + 1].rem = StepKey
                      /\ d[j].typ \in {branchNode, extNode}
               /\ Cardinality({f.path : f \in StepFinals}) = Len(finals') - Len(finals)
               /\ (InsertsInOrder /\ root.typ # hashedNode)
                      => updates'[Len(updates')].err = ""
        /\ (~Updated /\ ret'.op = "Hash") =>
               LET live == {x \in LiveNodes : x.node.typ # emptyNode} IN
               /\ {f.path : f \in StepFinals} = {x.path : x \in live}
               /\ Len(finals') - Len(finals) = Cardinality(live)
               /\ root'.typ = hashedNode
    ]_vars

\* A third Update of a two-byte key made three calls of insert(), through an
\* extension and a branch to a leaf, and the Hash after it finalized four
\* nodes.
C34_Witness ==
    /\ ret.op = "Hash" /\ Alive /\ Len(updates) = 3
    /\ \A i \in 1..3 : Len(updates[i].key) = 2
    /\ Len(updates[3].descent) = 3
    /\ updates[3].descent[1].typ = extNode
    /\ updates[3].descent[2].typ = branchNode
    /\ updates[3].descent[3].typ = leafNode
    /\ Cardinality({f \in 1..Len(finals) : finals[f].at.op = "Hash"}) >= 4

(***************************************************************************)
(* C35.  A hashed trie takes no more keys.                                 *)
(***************************************************************************)
\* C35: Hash() (and Commit()) leaves the root hashed, also on an empty trie;
\* while the root is hashed every step but Reset leaves the root as it is,
\* and every Update with a non-empty value fails with "trying to insert into
\* hash" and makes no callback.
C35_SealedUntilReset ==
    [][/\ (~Updated /\ ret'.op = "Hash") => root'.typ = hashedNode
       /\ (root.typ = hashedNode /\ ret'.op # "Reset") =>
              /\ root' = root
              /\ Inserts =>
                     /\ updates'[Len(updates')].err = ErrInsertHashed
                     /\ ret'.panic = ErrInsertHashed
                     /\ calls' = calls /\ finals' = finals /\ gauge' = gauge
    ]_vars

\* A trie of one key was hashed, and two Updates after that failed.
C35_Witness ==
    /\ Len(updates) = 3 /\ ret.op = "Update" /\ root.typ = hashedNode
    /\ updates[1].err = "" /\ ~updates[1].sealed
    /\ \A n \in 2..3 : /\ updates[n].sealed /\ updates[n].value # <<>>
                        /\ updates[n].err = ErrInsertHashed
    /\ BytesLess(updates[1].key, updates[2].key)
    /\ BytesLess(updates[2].key, updates[3].key)

\* An empty trie was hashed, and the Updates after that failed.
C35_WitnessEmpty ==
    /\ Len(updates) = 2 /\ ret.op = "Update" /\ root.typ = hashedNode
    /\ root.val = emptyRoot /\ finals = <<>>
    /\ \A n \in 1..2 : /\ updates[n].sealed /\ updates[n].value # <<>>
                        /\ updates[n].err = ErrInsertHashed

(***************************************************************************)
(* C36.  The options do not change the trie.                               *)
(***************************************************************************)
\* The environment of a trie without options.
PlainEnv ==
    [options |-> NewStackTrieOptions, first |-> NilSlice, last |-> NilSlice, gauge |-> 0,
     calls |-> <<>>, finals |-> <<>>, pool |-> <<>>, at |-> [op |-> "", n |-> 0],
     descent |-> <<>>]

\* The root of a trie without options after the first n Updates of this
\* lifetime that were made before the first Hash.
RECURSIVE PlainAfter(_)
PlainAfter(n) ==
    IF n = 0 THEN poolGet
    ELSE IF updates[n].sealed \/ updates[n].value = <<>> THEN PlainAfter(n - 1)
    ELSE insert(PlainEnv, PlainAfter(n - 1), Nibbles(updates[n].key), updates[n].value,
                <<>>).st

\* Hash() was called in this lifetime.
HashCalled == ret.op = "Hash" \/ \E n \in 1..Len(updates) : updates[n].sealed

\* The root of a trie without options that was fed the operations of this
\* lifetime.
PlainRoot ==
    IF HashCalled THEN hash(PlainEnv, PlainAfter(Len(updates)), <<>>).st
    ELSE PlainAfter(Len(updates))

\* C36: after every operation the node tree is the one a trie without
\* options has after the same operations, and Hash() returns the root that
\* trie returns, whatever writer, cleaner, boundary flags and counter are
\* configured.
C36_OptionsDoNotMatter ==
    /\ root = PlainRoot
    /\ ret.op = "Hash" => ret.hash = BytesToHash(PlainRoot.val)

\* A trie with writer, both boundary flags and counter made writer calls,
\* skipped nodes and returned from Hash.
C36_Witness ==
    /\ options.Writer /\ options.SkipLeftBoundary /\ options.SkipRightBoundary
    /\ options.boundaryGauge
    /\ Built /\ Alive /\ Len(updates) = 3
    /\ WriterIdx # {} /\ gauge >= 2
    /\ ret.hash = BytesToHash(PlainRoot.val)

\* A trie with writer and cleaner made calls of both during Updates.
C36_WitnessCleaner ==
    /\ options.Writer /\ options.Cleaner
    /\ ret.op = "Update" /\ Alive /\ Len(updates) = 3
    /\ WriterIdx # {} /\ CleanerIdx # {}
    /\ root = PlainRoot /\ root.typ # hashedNode

(***************************************************************************)
(* C37.  Keys of one length in any order.                                  *)
(***************************************************************************)
\* The keys passed to Update have one length and are pairwise distinct.
EqualLengthDistinct ==
    \A i, j \in 1..Len(updates) :
        /\ Len(updates[i].key) = Len(updates[j].key)
        /\ i # j => updates[i].key # updates[j].key

\* C37: for distinct keys of one length passed in any order, an Update
\* either returns or fails with "trying to insert into hash" or "Trying to
\* insert into existing key"; when every Update of a whole build returned,
\* Hash() returns the root of the reference trie of the inserted pairs.
C37_AnyOrderRightOrFails ==
    EqualLengthDistinct =>
        /\ \A n \in 1..Len(updates) :
               updates[n].value # <<>> =>
                   updates[n].err \in {"", ErrInsertHashed, ErrInsertExisting}
        /\ (Built /\ Alive) => ret.hash = RefRoot(Pairs)

\* Three keys were accepted out of order, the last one between the two
\* before it, and Hash returned the reference root.
C37_Witness ==
    /\ EqualLengthDistinct /\ Built /\ Alive /\ Len(updates) = 3
    /\ BytesLess(updates[1].key, updates[3].key)
    /\ BytesLess(updates[3].key, updates[2].key)
    /\ ret.hash = RefRoot(Pairs)

\* An Update out of order failed on a hashed node.
C37_WitnessFails ==
    /\ EqualLengthDistinct /\ Len(updates) = 3 /\ ret.op = "Update"
    /\ ~updates[3].sealed /\ updates[3].err = ErrInsertHashed

(***************************************************************************)
(* C38.  The writer stream goes from left to right.                        *)
(***************************************************************************)
\* Neither of the paths p and q is a prefix of the other.
Unrelated(p, q) == ~HasPrefix(p, q) /\ ~HasPrefix(q, p)

\* C38: in an in-order build, of two writer calls whose paths are not
\* prefixes of one another the one with the smaller path (in lexicographic
\* order) comes first, and a call for a path comes after the calls for the
\* paths it is a proper prefix of: the stream is in post-order.  After a
\* whole build every written node is a node of the reference trie of the
\* inserted pairs, at its path.
C38_PostOrderStream ==
    StrictlyIncreasing =>
        /\ \A i, j \in WriterIdx :
               Unrelated(calls[i].path, calls[j].path) =>
                   (i < j <=> BytesLess(calls[i].path, calls[j].path))
        /\ \A i, j \in WriterIdx : ProperPrefix(calls[i].path, calls[j].path) => j < i
        /\ (Built /\ Alive /\ PrefixFree) =>
               \A i \in WriterIdx :
                   [path |-> calls[i].path, blob |-> calls[i].blob] \in RefNodes(Pairs)

\* A whole build wrote three nodes whose paths are not prefixes of one
\* another, the first during an Update and the last during Hash, and the
\* root after them.
C38_Witness ==
    /\ Built /\ Alive /\ StrictlyIncreasing /\ PrefixFree /\ Len(updates) = 3
    /\ \E i, j, k, m \in WriterIdx :
          /\ i < j /\ j < k /\ k < m
          /\ Unrelated(calls[i].path, calls[j].path)
          /\ Unrelated(calls[j].path, calls[k].path)
          /\ Unrelated(calls[i].path, calls[k].path)
          /\ calls[i].at.op = "Update" /\ calls[k].at.op = "Hash"
          /\ calls[m].path = <<>>

(***************************************************************************)
(* C39.  The child of a cleaned extension was written.                     *)
(***************************************************************************)
\* The writer call that follows the cleaner call c: the call for the node
\* whose internal paths c belongs to (0 when there is none).
Owner(c) ==
    IF \E j \in WriterIdx : j > c
    THEN CHOOSE j \in WriterIdx : j > c /\ \A k \in WriterIdx : k > c => j <= k
    ELSE 0

\* C39: every cleaner call is followed by the writer call of an extension at
\* a path p with nibble path e such that the cleaned path lies strictly
\* between p and p ++ e, and the child of that extension was passed to the
\* writer before the cleaner call, at path p ++ e, with the digest the
\* extension holds for it: it was neither skipped nor kept inline.
C39_CleanedChildWritten ==
    \A c \in CleanerIdx :
        LET j == Owner(c) IN
        /\ j # 0
        /\ isExtBlob(calls[j].blob) /\ extChildIsDigest(calls[j].blob)
        /\ calls[j].at = calls[c].at
        /\ ProperPrefix(calls[j].path, calls[c].path)
        /\ ProperPrefix(calls[c].path, calls[j].path \o extPath(calls[j].blob))
        /\ \E i \in WriterIdx :
              /\ i < c
              /\ calls[i].path = calls[j].path \o extPath(calls[j].blob)
              /\ calls[i].hash = nodeItems(calls[j].blob)[2].body
              /\ hashData(calls[i].blob) = calls[i].hash
              /\ Len(calls[i].blob) >= 32

\* With the right boundary skipped, an Update split an extension and the
\* tail, an extension that is not on the boundary, had an internal path
\* cleaned, its child written before; Hash then skipped nodes.
C39_Witness ==
    /\ options.Cleaner /\ options.SkipRightBoundary /\ gauge >= 1 /\ ret.op = "Hash"
    /\ \E c \in CleanerIdx :
          /\ Owner(c) # 0
          /\ calls[c].at.op = "Update"
          /\ Len(extPath(calls[Owner(c)].blob)) >= 2
          /\ calls[Owner(c)].path # <<>>
          /\ \E i \in WriterIdx :
                /\ i < c
                /\ calls[i].path = calls[Owner(c)].path \o extPath(calls[Owner(c)].blob)

(***************************************************************************)
(* C40.  Cleaned paths and written paths.                                  *)
(***************************************************************************)
\* C40: within one lifetime with Updates in key order no path is passed both
\* to the cleaner and to the writer, whichever call comes first.
C40_CleanedNeverWritten ==
    StrictlyIncreasing =>
        \A c \in CleanerIdx : \A w \in WriterIdx : calls[c].path # calls[w].path

\* A whole build cleaned a path during an Update (for the tail of a split
\* extension), wrote nodes before and after that, and wrote the path the
\* cleaned one extends and a path that extends the cleaned one.
C40_Witness ==
    /\ Built /\ Alive /\ StrictlyIncreasing /\ Len(updates) = 3
    /\ \E c \in CleanerIdx :
          /\ calls[c].at.op = "Update"
          /\ \E u, v, w \in WriterIdx :
                /\ u < c /\ c < v /\ v < w
                /\ ProperPrefix(calls[c].path, calls[u].path)
                /\ ProperPrefix(calls[v].path, calls[c].path)
                /\ calls[w].at.op = "Hash"

\* A whole build cleaned paths during Hash.
C40_WitnessHash ==
    /\ Built /\ Alive /\ StrictlyIncreasing
    /\ \E c \in CleanerIdx : calls[c].at.op = "Hash"
    /\ Cardinality(WriterIdx) >= 3
====
